---- MODULE Spec2Model ----
(***************************************************************************)
(* Finite-shot measurement sampling of pennylane/devices/qubit/sampling.py *)
(* as a state machine: the grouper, the group dispatcher with its four     *)
(* strategies (a call stack models the Hamiltonian/Sum recursion), the     *)
(* NumPy and JAX samplers' error behaviour and the recombination; the      *)
(* samplers' bit extraction and PRNG key use; the shot and execution       *)
(* accounting of get_num_shots_and_executions; and, from                   *)
(* pennylane/ops/qubit/observables.py, the Hermitian eigendecomposition    *)
(* cache and the Projector constructor's dispatch.                         *)
(*                                                                         *)
(* Values that the code only passes around are symbolic: a result is a     *)
(* record naming the request it was computed for, the strategy, the shot   *)
(* slice it was computed from and the sample array's shape.                *)
(***************************************************************************)
EXTENDS Integers, Sequences, FiniteSets, TLC

VARIABLES
    measurements,   \* the caller's request objects (mutated in place by the grouper)
    measurements0,  \* history: the caller's requests as passed in
    shots,          \* the Shots argument: the sequence of shot counts
    state,          \* the state argument, abstracted to what the sampler reads of it
    prng_key,       \* the prng_key argument
    mid_measurements, \* the mid_measurements argument: its values in dictionary order
    stack,          \* call stack of measure_with_samples frames, innermost last
    result,         \* the value returned by the outermost call
    raised,         \* the exception that left the outermost call, or NoError
    returned,       \* history: the call that returned last, with its value
    pc,             \* "run" | "done" | "raised"
    sample_call,    \* the arguments of the sample_probs call, or NoCall
    choices,        \* history: the basis-state indices the random choice returned
    sample_out,     \* what sample_probs returned: the error raised or the bit array
    key_draws,      \* history: the supplied key's descendants consumed by a draw
    key_splits,     \* history: the supplied key's descendants that were split
    tape,           \* the tape given to get_num_shots_and_executions, or NoCall
    tape0,          \* history: the tape as passed in
    tape_groups,    \* history: the groups the accounting formed
    accounting,     \* what get_num_shots_and_executions returned, or NoCall
    eigs,           \* Hermitian._eigs: the process-wide cache, key -> entry
    eigh_calls,     \* history: the keys np.linalg.eigh was called for, in order
    served,         \* history: the (matrix, wires, entry) an observable was served
    eig_result,     \* what the last Hermitian method call returned, or NoCall
    constructed,    \* history: the two latest Projector constructions, in order
    rotation,       \* the latest _apply_diagonalizing_gates call, or NoCall
    rng,            \* the rng argument: None, an integer seed or a Generator object
    rng_draws,      \* history: how many values the passes have drawn through rng
    earlier         \* history: what an earlier call with these arguments returned, or NoCall

seedVars == <<rng, rng_draws, earlier>>

callVars == <<measurements, measurements0, shots, state, prng_key, mid_measurements,
              stack, result, raised, returned, pc, seedVars>>

samplerVars == <<sample_call, choices, sample_out>>

keyVars == <<key_draws, key_splits>>

tapeVars == <<tape, tape0, tape_groups, accounting>>

cacheVars == <<eigs, eigh_calls, served, eig_result>>

vars == <<callVars, samplerVars, keyVars, tapeVars, cacheVars, constructed, rotation>>

\* the variables no step of measure_with_samples touches
outsideCall == <<samplerVars, tapeVars, cacheVars, constructed>>

\* the variables no step of sample_probs touches
outsideSampler == <<callVars, tapeVars, cacheVars, constructed, rotation>>

\* the variables get_num_shots_and_executions does not touch
outsideTape == <<callVars, samplerVars, keyVars, cacheVars, constructed, rotation>>

\* the variables the Hermitian methods do not touch
outsideCache == <<callVars, samplerVars, keyVars, tapeVars, constructed, rotation>>

\* the variables a Projector construction does not touch
outsideProjector == <<callVars, samplerVars, keyVars, tapeVars, cacheVars, rotation>>

\* the variables a lone _apply_diagonalizing_gates call does not touch
outsideRotation == <<callVars, samplerVars, keyVars, tapeVars, cacheVars, constructed>>

----------------------------------------------------------------------------
(* Bounds of the model *)

\* longest request list passed to the outermost call
MaxReqs == 3

----------------------------------------------------------------------------
(* Sequence helpers *)

RECURSIVE SumSeq(_)
SumSeq(s) ==
    IF s = <<>> THEN 0 ELSE Head(s) + SumSeq(Tail(s))

RECURSIVE Flatten(_)
Flatten(ss) ==
    IF ss = <<>> THEN <<>> ELSE Head(ss) \o Flatten(Tail(ss))

Range(s) == { s[i] : i \in DOMAIN s }

\* the members of the set S of integers, ascending
RECURSIVE Ascending(_)
Ascending(S) ==
    IF S = {} THEN <<>>
    ELSE LET m == CHOOSE x \in S : \A y \in S : x <= y
         IN  <<m>> \o Ascending(S \ {m})

\* position (1-based) of the first occurrence of x in s, 0 when absent
IndexOf(s, x) ==
    IF \E i \in DOMAIN s : s[i] = x
    THEN CHOOSE i \in DOMAIN s : s[i] = x /\ \A j \in 1..(i - 1) : s[j] # x
    ELSE 0

----------------------------------------------------------------------------
(* Observables: the tagged variant of the data model.                      *)
(*   shape "None"              the request carries no observable           *)
(*   shape "PauliWord"         word = one letter per wire                  *)
(*   shape "Hermitian"         an opaque non-Pauli observable              *)
(*   shape "Sum"               terms[i].op are the operands (c = 1)        *)
(*   shape "LinearCombination" terms[i] = coefficient c and operator op    *)
(*   shape "SProd"             terms[1] = scalar c and base op             *)
(*   shape "Prod"              terms[i].op are the factors (c = 1)         *)

None == [shape |-> "None", word |-> <<>>, terms |-> <<>>]

PauliWord(w) == [shape |-> "PauliWord", word |-> w, terms |-> <<>>]

Hermitian == [shape |-> "Hermitian", word |-> <<>>, terms |-> <<>>]

Term(c, o) == [c |-> c, op |-> o]

SumOf(ops) ==
    [shape |-> "Sum", word |-> <<>>, terms |-> [i \in DOMAIN ops |-> Term(1, ops[i])]]

LinearCombination(ts) == [shape |-> "LinearCombination", word |-> <<>>, terms |-> ts]

SProd(c, o) == [shape |-> "SProd", word |-> <<>>, terms |-> <<Term(c, o)>>]

Prod(ops) ==
    [shape |-> "Prod", word |-> <<>>, terms |-> [i \in DOMAIN ops |-> Term(1, ops[i])]]

X0 == PauliWord(<<"X", "I">>)
Z0 == PauliWord(<<"Z", "I">>)
Z1 == PauliWord(<<"I", "Z">>)
X0Z1 == PauliWord(<<"X", "Z">>)

\* isinstance(obs, Sum): LinearCombination is a subclass of Sum
IsSum(o) == o.shape \in {"Sum", "LinearCombination"}

\* isinstance(mp.obs, (Sum, SProd, Prod))
IsSumSProdProd(o) == o.shape \in {"Sum", "LinearCombination", "SProd", "Prod"}

\* obs.terms(): the coefficients and the operators of a weighted sum
TermsOf(o) == o.terms

----------------------------------------------------------------------------
(* qml.simplify: the canonical form, combining like terms *)

\* the letter-wise product of two Pauli words with disjoint support
MergeWords(v, w) ==
    [i \in DOMAIN v |-> IF v[i] = "I" THEN w[i] ELSE v[i]]

RECURSIVE MergeAll(_)
MergeAll(ts) ==
    IF Len(ts) = 1 THEN ts[1].op.word
    ELSE MergeWords(ts[1].op.word, MergeAll(Tail(ts)))

ScaleTerms(c, ts) == [i \in DOMAIN ts |-> Term(c * ts[i].c, ts[i].op)]

\* the weighted leaves of an observable, sums and scalar products expanded
RECURSIVE Expand(_)
RECURSIVE ExpandTerms(_)
Expand(o) ==
    CASE o.shape \in {"Sum", "LinearCombination", "SProd"} -> ExpandTerms(o.terms)
      [] o.shape = "Prod" /\ \A i \in DOMAIN o.terms : o.terms[i].op.shape = "PauliWord"
            -> <<Term(1, PauliWord(MergeAll(o.terms)))>>
      [] OTHER -> <<Term(1, o)>>
ExpandTerms(ts) ==
    IF ts = <<>> THEN <<>>
    ELSE ScaleTerms(ts[1].c, Expand(ts[1].op)) \o ExpandTerms(Tail(ts))

\* like terms combined: one term per distinct operator, in order of first
\* occurrence, with the summed coefficient; terms that cancel are dropped
CombineLikeTerms(ts) ==
    LET ops    == [i \in DOMAIN ts |-> ts[i].op]
        firsts == { i \in DOMAIN ts : IndexOf(ops, ops[i]) = i }
        coeff(i) == SumSeq([j \in DOMAIN ts |-> IF ops[j] = ops[i] THEN ts[j].c ELSE 0])
        kept   == Ascending({ i \in firsts : coeff(i) # 0 })
    IN  [k \in DOMAIN kept |-> Term(coeff(kept[k]), ts[kept[k]].op)]

Scaled(t) == IF t.c = 1 THEN t.op ELSE SProd(t.c, t.op)

simplify(o) ==
    LET ts == CombineLikeTerms(Expand(o))
    IN  CASE o.shape = "LinearCombination" -> LinearCombination(ts)
          [] o.shape = "Sum" -> SumOf([i \in DOMAIN ts |-> Scaled(ts[i])])
          [] o.shape \in {"SProd", "Prod"} ->
                IF Len(ts) = 1 THEN Scaled(ts[1]) ELSE o
          [] OTHER -> o

\* qml.pauli.is_pauli_word: a coefficient-free tensor product of Pauli factors
is_pauli_word(o) == o.shape = "PauliWord"

----------------------------------------------------------------------------
(* Measurement requests: id is the identity of the request object (its      *)
(* position in the list it was created in), kind the measurement process.   *)

Request(i, kind, o) == [id |-> i, kind |-> kind, obs |-> o]

\* ExpectationMP(t)
ExpectationMP(i, o) == Request(i, "expval", o)

\* isinstance(mp, (ClassicalShadowMP, ShadowExpvalMP))
IsShadow(mp) == mp.kind \in {"classical_shadow", "shadow_expval"}

----------------------------------------------------------------------------
(* _group_measurements *)

\* lines 66-68: Sum, SProd and Prod observables are replaced by their
\* simplified form, in the request object itself
SimplifyObsSkipped(mps) == mps

SimplifyObs(mps) ==
    [i \in DOMAIN mps |->
        IF IsSumSProdProd(mps[i].obs)
        THEN [mps[i] EXCEPT !.obs = simplify(mps[i].obs)]
        ELSE mps[i]]

\* lines 69-79: the list a request is appended to
ClassifyNoObsFirst(mp) ==
    IF mp.obs = None THEN "no_obs"
    ELSE IF IsShadow(mp) THEN "other"
    ELSE IF is_pauli_word(mp.obs) THEN "pauli"
    ELSE "other"

ClassifyAllPauli(mp) ==
    IF IsShadow(mp) THEN "other"
    ELSE IF mp.obs = None THEN "no_obs"
    ELSE "pauli"

Classify(mp) ==
    IF IsShadow(mp) THEN "other"
    ELSE IF mp.obs = None THEN "no_obs"
    ELSE IF is_pauli_word(mp.obs) THEN "pauli"
    ELSE "other"

\* the 0-based positions of the requests of class c, in list order
PositionsOf(mps, c) ==
    Ascending({ i - 1 : i \in { j \in DOMAIN mps : Classify(mps[j]) = c } })

\* qml.pauli.compute_partition_indices on k observables: a black box that
\* returns some ordered partition of the positions 0..k-1
Perms(k) ==
    { p \in [1..k -> 0..(k - 1)] : \A i, j \in 1..k : p[i] = p[j] => i = j }

SplitAt(p, cuts) ==
    LET ends   == Ascending(cuts \cup {Len(p)})
        starts == [g \in DOMAIN ends |-> IF g = 1 THEN 1 ELSE ends[g - 1] + 1]
    IN  [g \in DOMAIN ends |-> SubSeq(p, starts[g], ends[g])]

compute_partition_indices(k) ==
    { SplitAt(p, cuts) : p \in Perms(k), cuts \in SUBSET (1..(k - 1)) }

\* lines 80-92: the Pauli groups and their index groups from the partition
PauliIndexGroupsUnmapped(coeffs, part_indices) == part_indices

PauliIndexGroups(coeffs, part_indices) ==
    [g \in DOMAIN part_indices |->
        [k \in DOMAIN part_indices[g] |-> coeffs[part_indices[g][k] + 1]]]

\* lines 94-97: how the three families of groups are concatenated
ConcatGroupsNoObsFirst(pauli, no_obs, other) == no_obs \o pauli \o other

ConcatGroups(pauli, no_obs, other) == pauli \o no_obs \o other

\* lines 94-95: the requests without observable form one group, if any
NoObsGroupEach(no_obs) == [k \in DOMAIN no_obs |-> <<no_obs[k]>>]

NoObsGroup(no_obs) == IF no_obs # <<>> THEN <<no_obs>> ELSE <<>>

\* line 53: the fast path
FastPath(mps) == Len(mps) = 1

group_measurements(mps, part_indices) ==
    IF FastPath(mps)
    THEN [mps |-> mps, groups |-> <<mps>>, indices |-> << <<0>> >>]
    ELSE
      LET ms     == SimplifyObs(mps)
          coeffs == PositionsOf(ms, "pauli")
          group_indices == PauliIndexGroups(coeffs, part_indices)
          mp_pauli_groups ==
              [g \in DOMAIN group_indices |->
                  [k \in DOMAIN group_indices[g] |-> ms[group_indices[g][k] + 1]]]
          no_obs_pos == PositionsOf(ms, "no_obs")
          mp_no_obs  == [k \in DOMAIN no_obs_pos |-> ms[no_obs_pos[k] + 1]]
          other_pos  == PositionsOf(ms, "other")
          mp_other_obs         == [k \in DOMAIN other_pos |-> <<ms[other_pos[k] + 1]>>]
          mp_other_obs_indices == [k \in DOMAIN other_pos |-> <<other_pos[k]>>]
          no_obs_groups  == NoObsGroup(mp_no_obs)
          no_obs_indices == NoObsGroup(no_obs_pos)
      IN  [mps     |-> ms,
           groups  |-> ConcatGroups(mp_pauli_groups, no_obs_groups, mp_other_obs),
           indices |-> ConcatGroups(group_indices, no_obs_indices, mp_other_obs_indices)]

\* the number of observables handed to the partition routine (0: not called)
NumPauli(mps) ==
    IF FastPath(mps) THEN 0 ELSE Len(PositionsOf(SimplifyObs(mps), "pauli"))

----------------------------------------------------------------------------
(* Shots: a non-empty sequence of shot counts, one per partition *)

total_shots(sh) == SumSeq(sh)

num_copies(sh) == Len(sh)

has_partitioned_shots(sh) == Len(sh) > 1

\* shots.bins(): the (lower, upper) offsets of each partition
bins(sh) ==
    [p \in DOMAIN sh |->
        [lower |-> SumSeq(SubSeq(sh, 1, p - 1)), upper |-> SumSeq(SubSeq(sh, 1, p))]]

----------------------------------------------------------------------------
(* Random keys: a key is a path in the tree of splits *)

NoKey == [present |-> FALSE, path |-> <<>>]

RootKey == [present |-> TRUE, path |-> <<>>]

jax_random_split_same(key, num) == [i \in 1..num |-> key]

\* jax_random_split(prng_key, num): num children of the key, or num times None
jax_random_split(key, num) ==
    [i \in 1..num |->
        IF key.present THEN [present |-> TRUE, path |-> Append(key.path, i - 1)]
        ELSE NoKey]

\* the keys among ks that exist (splitting None splits nothing)
Present(ks) == {k \in ks : k.present}

\* _sample_probs_jax, lines 570-580: the key it splits and the keys its
\* draws consume, in order
JaxKeyUse(key, batched, batch_size) ==
    [splits |-> Present({key}),
     draws  |-> IF ~key.present THEN <<>>
                ELSE IF batched THEN jax_random_split(key, batch_size)
                ELSE <<jax_random_split(key, 2)[2]>>]

KeysIdle == key_draws = <<>> /\ key_splits = {}

----------------------------------------------------------------------------
(* The samplers. The state is abstracted to its interface, its batching,   *)
(* its number of wires and, per batch element, whether the probabilities   *)
(* hold a NaN and how far their sum is from 1, in units of 1e-8.           *)

\* cutoff = 1e-07, in units of 1e-8
cutoff == 10

NoError == "none"

NotNormalized == "probabilities do not sum to 1"

ContainNaN == "probabilities contain NaN"

\* the values rng takes: None, an integer seed, a np.random.Generator
NoSeed == [kind |-> "none", seed |-> 0]

IntSeed(n) == [kind |-> "seed", seed |-> n]

GeneratorObject == [kind |-> "generator", seed |-> 0]

\* a generator: the stream it draws from and how many values of that
\* stream were drawn before
Generator(source, offset) == [source |-> source, offset |-> offset]

NoGenerator == Generator(NoSeed, 0)

default_rng_continued(r, taken) ==
    IF r.kind = "none" THEN Generator([kind |-> "entropy", seed |-> taken], 0)
    ELSE Generator(r, taken)

\* np.random.default_rng(rng), lines 522 and 566: an integer seeds a fresh
\* generator, a Generator object is returned as it is, None seeds a fresh
\* generator from the operating system's entropy, a seed that no generator
\* before it had (it is named by the values drawn through rng so far)
default_rng(r, taken) ==
    IF r.kind = "seed" THEN Generator(r, 0)
    ELSE IF r.kind = "generator" THEN Generator(r, taken)
    ELSE Generator([kind |-> "entropy", seed |-> taken], 0)

\* what a sampling pass draws its samples from: the backend key where the
\* JAX sampler is given one (line 579), else the generator built from rng,
\* which seeds the JAX sampler's key at line 566
StreamOf(key, r, taken) ==
    IF key.present THEN Generator(key, 0) ELSE default_rng(r, taken)

\* how many values a pass draws through rng: none with a backend key, the
\* key's seed at line 566, else the shots of each row (lines 534 and 537)
TakenBy(st, key, nshots) ==
    IF key.present THEN 0
    ELSE IF st.interface = "jax" THEN 1
    ELSE nshots * Len(st.probs)

\* a sample array: its shape, whether it is the zero array of line 334,
\* and what determines its entries: the stream they were drawn from and
\* the rotated state whose probabilities they were drawn with
Samples(shape, zero) ==
    [shape |-> shape, zero |-> zero, stream |-> NoGenerator, basis |-> <<>>]

DrawnFrom(samples, stream, basis) ==
    [samples EXCEPT !.stream = stream, !.basis = basis]

NoSamples == Samples(<<>>, FALSE)

SampleShape(st, nshots) ==
    IF st.batched THEN <<Len(st.probs), nshots, st.wires>> ELSE <<nshots, st.wires>>

\* line 528: NaN compares false, so an element holding a NaN passes the check
NormErrAboveCutoff(e) == ~e.nan /\ e.err > cutoff

\* _sample_probs_numpy: the error raised, or the samples drawn
sample_probs_numpy(st, nshots) ==
    IF \E i \in DOMAIN st.probs : NormErrAboveCutoff(st.probs[i])
    THEN [error |-> NotNormalized, samples |-> NoSamples]
    ELSE IF \E i \in DOMAIN st.probs : st.probs[i].nan
    THEN [error |-> ContainNaN, samples |-> NoSamples]
    ELSE [error |-> NoError, samples |-> Samples(SampleShape(st, nshots), FALSE)]

\* _sample_probs_jax: no validation, jax.random.choice raises nothing
sample_probs_jax(st, nshots) ==
    [error |-> NoError, samples |-> Samples(SampleShape(st, nshots), FALSE)]

\* sample_probs, line 503
sample_probs(st, nshots, key) ==
    IF st.interface = "jax" \/ key.present
    THEN sample_probs_jax(st, nshots)
    ELSE sample_probs_numpy(st, nshots)

\* line 332: the errors the default strategy absorbs
IsAbsorbedAnyValueError(e) == e \in {ContainNaN, NotNormalized}

IsAbsorbed(e) == e = ContainNaN

\* line 334: qml.math.full((shots.total_shots, len(wires)), 0)
FallbackSamples(st, sh) == Samples(<<total_shots(sh), st.wires>>, TRUE)

----------------------------------------------------------------------------
(* Results: symbolic values *)

Min(a, b) == IF a <= b THEN a ELSE b

\* the value computed for request mp by a strategy from nshots shots
Res(mp, strategy, nshots, lower, samples, parts) ==
    [mp |-> mp, strategy |-> strategy, nshots |-> nshots, lower |-> lower,
     samples |-> samples, parts |-> parts]

\* the rows of samples[..., lower:upper, :]
SliceRows(samples, lower, upper) ==
    LET rows == samples.shape[Len(samples.shape) - 1]
    IN  Min(upper, rows) - Min(lower, rows)

\* mp.process_samples(samples[..., lower:upper, :], wires)
process_samples(mp, samples, bin) ==
    Res(mp, "default", SliceRows(samples, bin.lower, bin.upper), bin.lower, samples, <<>>)

\* lines 336-344: every member on every bin, measurement axis outermost
\* when the shots are partitioned
ProcessBinsFromStart(mps, samples, sh) ==
    IF Len(sh) > 1
    THEN [m \in DOMAIN mps |->
            [p \in DOMAIN sh |->
                [mp |-> mps[m], strategy |-> "default", nshots |-> sh[p], lower |-> 0,
                 samples |-> samples, parts |-> <<>>]]]
    ELSE [m \in DOMAIN mps |->
            [mp |-> mps[m], strategy |-> "default", nshots |-> sh[1], lower |-> 0,
             samples |-> samples, parts |-> <<>>]]

ProcessBins(mps, samples, sh) ==
    IF has_partitioned_shots(sh)
    THEN [m \in DOMAIN mps |->
            [p \in DOMAIN sh |-> process_samples(mps[m], samples, bins(sh)[p])]]
    ELSE [m \in DOMAIN mps |-> process_samples(mps[m], samples, bins(sh)[1])]

\* mp.process_state_with_shots(state, wires, s, rng=rng)
process_state_with_shots(mp, s) == Res(mp, "shadow", s, 0, NoSamples, <<>>)

\* the generators the calls of process_state_with_shots build from rng,
\* one per entry of shots, each call drawing its shots
ShadowStreams(sh, r, taken) ==
    [p \in DOMAIN sh |-> default_rng(r, taken + SumSeq(SubSeq(sh, 1, p - 1)))]

\* the entries of _measure_classical_shadow with the streams they were
\* drawn from
WithStreams(entries, sh, streams) ==
    IF has_partitioned_shots(sh)
    THEN << [p \in DOMAIN sh |->
                [entries[1][p] EXCEPT !.samples.stream = streams[p]]] >>
    ELSE << [entries[1] EXCEPT !.samples.stream = streams[1]] >>

\* _measure_classical_shadow
measure_classical_shadow(mps, sh) ==
    IF has_partitioned_shots(sh)
    THEN << [p \in DOMAIN sh |-> process_state_with_shots(mps[1], sh[p])] >>
    ELSE << process_state_with_shots(mps[1], total_shots(sh)) >>

\* a sampling pass: the group it was made for and the shots it asked for
Pass(gi, nshots) == [group |-> gi, nshots |-> nshots]

\* the passes of _measure_classical_shadow, lines 380-383: one per shot
\* copy, each of that copy's shots
ShadowPassesOfTotalShots(gi, sh) == [p \in DOMAIN sh |-> Pass(gi, SumSeq(sh))]

ShadowPasses(gi, sh) ==
    IF has_partitioned_shots(sh) THEN [p \in DOMAIN sh |-> Pass(gi, sh[p])]
    ELSE <<Pass(gi, total_shots(sh))>>

\* lines 242-250: the strategy is chosen from the group's first member
Strategy(group) ==
    IF group[1].kind = "expval" /\ group[1].obs.shape = "LinearCombination"
    THEN "hamiltonian"
    ELSE IF group[1].kind = "expval" /\ IsSum(group[1].obs) THEN "sum"
    ELSE IF IsShadow(group[1]) THEN "shadow"
    ELSE "default"

\* how deeply weighted sums are nested in an observable
RECURSIVE NestingDepth(_)
NestingDepth(o) ==
    LET below == { NestingDepth(o.terms[i].op) : i \in DOMAIN o.terms }
        deepest == IF below = {} THEN 0 ELSE CHOOSE d \in below : \A e \in below : e <= d
    IN  (IF IsSum(o) THEN 1 ELSE 0) + deepest

TermRequestsOnItself(mp) ==
    IF mp.id = 1 THEN <<ExpectationMP(0, mp.obs)>>
    ELSE [i \in DOMAIN mp.obs.terms |-> ExpectationMP(i - 1, mp.obs.terms[i].op)]

\* lines 401 and 432: one expectation request per term (operand)
TermRequests(mp) ==
    [i \in DOMAIN TermsOf(mp.obs) |-> ExpectationMP(i - 1, TermsOf(mp.obs)[i].op)]

\* lines 408 and 439: sum(c * res for c, res in zip(coeffs, results)) and
\* sum(results), for the shot count s of one partition
SumForSingleShotUnweighted(mp, strategy, results, s) ==
    [mp |-> mp, strategy |-> strategy, nshots |-> s, lower |-> 0,
     samples |-> NoSamples,
     parts |-> [i \in DOMAIN results |-> [c |-> 1, res |-> results[i]]]]

SumForSingleShot(mp, strategy, results, s) ==
    LET ts == TermsOf(mp.obs)
        n  == Min(Len(ts), Len(results))
    IN  Res(mp, strategy, s, 0, NoSamples,
            [i \in 1..n |->
                [c |-> IF strategy = "hamiltonian" THEN ts[i].c ELSE 1,
                 res |-> results[i]]])

\* the positions of all_res ordered by their key in flat_indices (stable)
RECURSIVE SortedPositions(_, _)
SortedPositions(S, flat) ==
    IF S = {} THEN <<>>
    ELSE LET k == CHOOSE x \in S :
                    \A y \in S : flat[x] < flat[y] \/ (flat[x] = flat[y] /\ x <= y)
         IN  <<k>> \o SortedPositions(S \ {k}, flat)

\* lines 259-264
ReorderUnsorted(all_res, indices) == all_res

Reorder(all_res, indices) ==
    LET flat  == Flatten(indices)
        order == SortedPositions(DOMAIN all_res, flat)
    IN  [k \in DOMAIN order |-> all_res[order[k]]]

\* tuple(zip(*rows)): as long as the shortest row, empty without rows
ZipTranspose(rows) ==
    IF rows = <<>> THEN <<>>
    ELSE LET n == CHOOSE m \in { Len(rows[j]) : j \in DOMAIN rows } :
                    \A j \in DOMAIN rows : m <= Len(rows[j])
         IN  [p \in 1..n |-> [j \in DOMAIN rows |-> rows[j][p]]]

\* lines 270-272
ShotAxisFirstUntransposed(sorted_res, sh) == sorted_res

ShotAxisFirst(sorted_res, sh) ==
    IF has_partitioned_shots(sh) THEN ZipTranspose(sorted_res) ELSE sorted_res

----------------------------------------------------------------------------
(* Inputs *)

\* the request kinds and observables the outermost call is given
SampledRequests ==
    { [kind |-> "expval", obs |-> X0],
      [kind |-> "expval", obs |-> Z1],
      [kind |-> "sample", obs |-> None],
      [kind |-> "expval", obs |-> Hermitian],
      [kind |-> "expval", obs |-> LinearCombination(<<Term(2, X0), Term(3, Z0)>>)],
      [kind |-> "expval", obs |-> SumOf(<<X0Z1, SumOf(<<Z0, Z0>>)>>)],
      [kind |-> "classical_shadow", obs |-> None] }

\* the request kinds and observables the grouper alone is given
GroupedRequests ==
    SampledRequests \cup
    { [kind |-> "counts", obs |-> None],
      [kind |-> "sample", obs |-> X0],
      [kind |-> "shadow_expval", obs |-> X0],
      [kind |-> "expval", obs |-> Prod(<<X0, Z1>>)],
      [kind |-> "expval", obs |-> SProd(2, Z0)] }

\* the lists of 1..MaxReqs requests over U; ids are the list positions
WithIds(l) == [i \in DOMAIN l |-> Request(i - 1, l[i].kind, l[i].obs)]

RequestLists(U) ==
    UNION { { WithIds(l) : l \in [1..n -> U] } : n \in 1..MaxReqs }

DistinctRequestLists(U) ==
    UNION { { WithIds(l) : l \in { f \in [1..n -> U] :
                                     \A i, j \in 1..n : f[i] = f[j] => i = j } } :
            n \in 1..MaxReqs }

ShotsInputs == { <<2>>, <<1, 2>> }

Elem(nan, err) == [nan |-> nan, err |-> err]

State(interface, batched, probs) ==
    [interface |-> interface, batched |-> batched, wires |-> 2, probs |-> probs]

\* state and key together: NumPy with sums inside, at and beyond the
\* tolerance, with NaN, batched mixes of these, and the two ways to JAX
CallInputs ==
    { [state |-> State("numpy", FALSE, <<Elem(FALSE, 10)>>), key |-> NoKey],
      [state |-> State("numpy", FALSE, <<Elem(FALSE, 11)>>), key |-> NoKey],
      [state |-> State("numpy", FALSE, <<Elem(TRUE, 0)>>), key |-> NoKey],
      [state |-> State("numpy", TRUE, <<Elem(FALSE, 0), Elem(FALSE, 0)>>), key |-> NoKey],
      [state |-> State("numpy", TRUE, <<Elem(TRUE, 0), Elem(FALSE, 0)>>), key |-> NoKey],
      [state |-> State("numpy", TRUE, <<Elem(FALSE, 0), Elem(FALSE, 25)>>), key |-> NoKey],
      [state |-> State("numpy", TRUE, <<Elem(TRUE, 0), Elem(FALSE, 25)>>), key |-> NoKey],
      [state |-> State("numpy", FALSE, <<Elem(FALSE, 25)>>), key |-> RootKey],
      [state |-> State("jax", TRUE, <<Elem(FALSE, 0), Elem(FALSE, 0)>>), key |-> RootKey],
      [state |-> State("jax", FALSE, <<Elem(TRUE, 0)>>), key |-> NoKey] }

----------------------------------------------------------------------------
(* _apply_diagonalizing_gates. A gate is symbolic: the routine that gave   *)
(* it, the letter it rotates to Z and the wire it acts on. The state is    *)
(* the sequence of gates applied to it so far.                             *)

NoCall == [called |-> FALSE]

Gate(by, letter, wire) == [by |-> by, letter |-> letter, wire |-> wire]

\* the gates that diagonalize a Pauli word: one per wire holding X or Y, in
\* wire order
WordGates(by, w) ==
    Flatten([i \in DOMAIN w |->
                IF w[i] \in {"X", "Y"} THEN <<Gate(by, w[i], i - 1)>> ELSE <<>>])

\* mp.diagonalizing_gates(): the observable's own gates, none without one
own_diagonalizing_gates(mp) ==
    IF mp.obs.shape = "None" THEN <<>>
    ELSE IF mp.obs.shape = "PauliWord" THEN WordGates("own", mp.obs.word)
    ELSE <<Gate("own", mp.obs.shape, 0)>>

\* the word that holds, on every wire, the letter of the first word that
\* acts there
RECURSIVE JoinWords(_)
JoinWords(ws) ==
    IF Len(ws) = 1 THEN ws[1] ELSE MergeWords(ws[1], JoinWords(Tail(ws)))

\* qml.pauli.diagonalize_qwc_pauli_words(obs_list)[0]
diagonalize_qwc_pauli_words(obs_list) ==
    WordGates("qwc", JoinWords([i \in DOMAIN obs_list |-> obs_list[i].word]))

\* line 200: apply_operation(op, state)
apply_operation(op, st) == Append(st, op)

\* lines 199-200: the gates applied one after the other
RECURSIVE ApplyAll(_, _)
ApplyAll(gates, st) ==
    IF gates = <<>> THEN st
    ELSE ApplyAll(Tail(gates), apply_operation(Head(gates), st))

apply_own_gates_of_each(mps, st) ==
    ApplyAll(Flatten([i \in DOMAIN mps |-> own_diagonalizing_gates(mps[i])]), st)

\* _apply_diagonalizing_gates(mps, state)
apply_diagonalizing_gates(mps, st) ==
    LET diagonalizing_gates ==
            IF Len(mps) = 1 THEN own_diagonalizing_gates(mps[1])
            ELSE IF \A i \in DOMAIN mps : mps[i].obs # None
            THEN diagonalize_qwc_pauli_words([i \in DOMAIN mps |-> mps[i].obs])
            ELSE <<>>
    IN  ApplyAll(diagonalizing_gates, st)

\* the record of a call: its group, the state it was given and, once it
\* has returned, the state it returned
Rotation(mps, st, done, out) ==
    [called |-> TRUE, mps |-> mps, state |-> st, done |-> done, out |-> out]

RotationIdle == rotation = NoCall

\* _apply_diagonalizing_gates called on its own
ApplyDiagonalizingGates ==
    /\ rotation # NoCall
    /\ ~rotation.done
    /\ rotation' = Rotation(rotation.mps, rotation.state, TRUE,
                            apply_diagonalizing_gates(rotation.mps, rotation.state))
    /\ UNCHANGED outsideRotation

----------------------------------------------------------------------------
(* measure_with_samples: one frame per call in progress *)

Frame(mps, sh, key) ==
    [mps0     |-> mps,      \* history: the requests as passed in
     mps      |-> mps,      \* the requests (the grouper rewrites observables)
     shots    |-> sh,
     prng_key |-> key,
     pc       |-> "group",  \* "group": before line 239; "loop": lines 241-257
     part     |-> <<>>,     \* history: what the partition routine returned
     groups   |-> <<>>,
     indices  |-> <<>>,
     gi       |-> 1,        \* the group the loop is at
     all_res  |-> <<>>,
     key      |-> NoKey,    \* the key forwarded to the group's strategy
     copy     |-> 1,        \* Hamiltonian/Sum strategy: the shot copy it is at
     sub      |-> <<>>,     \* Hamiltonian/Sum strategy: the copies' values so far
     calls    |-> <<>>,     \* history: the recursive calls of the strategy's latest run
     passes   |-> <<>>,     \* history: the sampling passes made for the groups so far
     mid      |-> <<>>]     \* the mid_measurements values (recursive calls pass none)

\* a value of mid_measurements: a scalar, or a sequence iterated by zip
MidValue(iterable, items) == [iterable |-> iterable, items |-> items]

\* line 237: measurements[0 : -len(mid_measurements)] if mid_measurements
WithoutMid(mps, mid) ==
    IF mid = <<>> THEN mps
    ELSE IF Len(mid) >= Len(mps) THEN <<>>
    ELSE SubSeq(mps, 1, Len(mps) - Len(mid))

\* the requests line 237 leaves out
MidRequestsOf(mps, mid) ==
    SubSeq(mps, Len(WithoutMid(mps, mid)) + 1, Len(mps))

Top == stack[Len(stack)]

SetTop(f) == [stack EXCEPT ![Len(stack)] = f]

AtGroup(strategies) ==
    /\ pc = "run"
    /\ Top.pc = "loop"
    /\ Top.gi <= Len(Top.groups)
    /\ Strategy(Top.groups[Top.gi]) \in strategies

\* line 239
GroupMeasurements ==
    /\ pc = "run"
    /\ Top.pc = "group"
    /\ \E part \in IF NumPauli(WithoutMid(Top.mps, Top.mid)) = 0 THEN {<<>>}
                   ELSE compute_partition_indices(NumPauli(WithoutMid(Top.mps, Top.mid))) :
         LET g == group_measurements(WithoutMid(Top.mps, Top.mid), part)
         IN  /\ stack' = SetTop([Top EXCEPT !.mps = g.mps, !.groups = g.groups,
                                            !.indices = g.indices, !.part = part,
                                            !.pc = "loop"])
             /\ measurements' = IF Len(stack) = 1
                                THEN g.mps \o MidRequestsOf(Top.mps, Top.mid)
                                ELSE measurements
    /\ UNCHANGED <<measurements0, shots, state, prng_key, result, raised, returned, pc>>
    /\ UNCHANGED keyVars
    /\ UNCHANGED <<mid_measurements, rotation, seedVars, outsideCall>>

\* lines 252-257 with _measure_with_samples_diagonalizing_gates
MeasureWithDiagonalizingGates ==
    /\ AtGroup({"default"})
    /\ LET keys    == jax_random_split(Top.prng_key, 2)
           group   == Top.groups[Top.gi]
           key     == jax_random_split(keys[2], 2)[1]
           drawn   == sample_probs(state, total_shots(Top.shots), key)
           samples == IF drawn.error = NoError
                      THEN DrawnFrom(drawn.samples,
                                     StreamOf(key, rng, rng_draws),
                                     apply_diagonalizing_gates(group, <<>>))
                      ELSE FallbackSamples(state, Top.shots)
       IN  /\ IF drawn.error # NoError /\ ~IsAbsorbed(drawn.error)
              THEN /\ raised' = drawn.error
                   /\ pc' = "raised"
                   /\ stack' = <<>>
              ELSE /\ stack' = SetTop([Top EXCEPT
                           !.prng_key = keys[1],
                           !.all_res = @ \o ProcessBins(group, samples, Top.shots),
                           !.passes = Append(@, Pass(Top.gi, total_shots(Top.shots))),
                           !.gi = @ + 1])
                   /\ UNCHANGED <<raised, pc>>
           /\ rng_draws' = IF drawn.error = NoError
                           THEN rng_draws + TakenBy(state, key, total_shots(Top.shots))
                           ELSE rng_draws
    /\ LET key == jax_random_split(Top.prng_key, 2)[2]
           use == JaxKeyUse(jax_random_split(key, 2)[1], state.batched, Len(state.probs))
       IN  /\ key_splits' = key_splits \cup Present({Top.prng_key, key}) \cup use.splits
           /\ key_draws' = key_draws \o use.draws
    /\ rotation' = Rotation(Top.groups[Top.gi], <<>>, TRUE,
                            apply_diagonalizing_gates(Top.groups[Top.gi], <<>>))
    /\ UNCHANGED <<measurements, measurements0, shots, state, prng_key, result, returned>>
    /\ UNCHANGED <<mid_measurements, rng, earlier, outsideCall>>

\* lines 252-257 with _measure_classical_shadow
MeasureClassicalShadow ==
    /\ AtGroup({"shadow"})
    /\ stack' = SetTop([Top EXCEPT
            !.prng_key = jax_random_split(Top.prng_key, 2)[1],
            !.all_res = @ \o WithStreams(
                measure_classical_shadow(Top.groups[Top.gi], Top.shots), Top.shots,
                ShadowStreams(Top.shots, rng, rng_draws)),
            !.passes = @ \o ShadowPasses(Top.gi, Top.shots),
            !.gi = @ + 1])
    /\ rng_draws' = rng_draws + total_shots(Top.shots)
    /\ key_splits' = key_splits \cup Present({Top.prng_key})
    /\ UNCHANGED <<measurements, measurements0, shots, state, prng_key, result, raised,
                   returned, pc, key_draws>>
    /\ UNCHANGED <<mid_measurements, rotation, rng, earlier, outsideCall>>

\* lines 252-257 with _measure_hamiltonian_with_samples or
\* _measure_sum_with_samples: the recursive call for the next shot copy
MeasureTerms ==
    /\ AtGroup({"hamiltonian", "sum"})
    /\ LET first == Top.copy = 1
           keys  == jax_random_split(Top.prng_key, 2)
           key   == IF first THEN keys[2] ELSE Top.key
           callee == Frame(TermRequests(Top.groups[Top.gi][1]),
                           <<Top.shots[Top.copy]>>,
                           jax_random_split(key, num_copies(Top.shots))[Top.copy])
           caller == [Top EXCEPT !.prng_key = IF first THEN keys[1] ELSE @,
                                 !.key = key,
                                 !.calls = Append(IF first THEN <<>> ELSE @,
                                                  [mps |-> callee.mps,
                                                   shots |-> callee.shots,
                                                   key |-> callee.prng_key])]
       IN  /\ stack' = Append(SetTop(caller), callee)
           /\ key_splits' = IF first THEN key_splits \cup Present({Top.prng_key, key})
                            ELSE key_splits
    /\ UNCHANGED <<measurements, measurements0, shots, state, prng_key, result, raised,
                   returned, pc, key_draws>>
    /\ UNCHANGED <<mid_measurements, rotation, seedVars, outsideCall>>

\* lines 267-268: sorted_res += tuple(mid_measurements.values()); where line
\* 272 will zip the entries, a value stands as the items zip iterates
AppendMid(sorted_res, mid, sh) ==
    sorted_res \o (IF has_partitioned_shots(sh)
                   THEN [k \in DOMAIN mid |-> mid[k].items]
                   ELSE mid)

\* line 272: zip raises on an entry that is not iterable
NotIterable == "zip argument is not iterable"

ZipRaises(f) ==
    has_partitioned_shots(f.shots) /\ \E k \in DOMAIN f.mid : ~f.mid[k].iterable

Recombine(f) ==
    ShotAxisFirst(AppendMid(Reorder(f.all_res, f.indices), f.mid, f.shots), f.shots)

\* history: the requests and shots a call was given, the grouping it used,
\* the requests as it left them and the value it returned
Returned(f) ==
    [mps0 |-> f.mps0, mps |-> f.mps, shots |-> f.shots, indices |-> f.indices,
     groups |-> f.groups, passes |-> f.passes, value |-> Recombine(f)]

NothingReturned ==
    [mps0 |-> <<>>, mps |-> <<>>, shots |-> <<>>, indices |-> <<>>,
     groups |-> <<>>, passes |-> <<>>, value |-> <<>>]

LoopDone ==
    /\ pc = "run"
    /\ Top.pc = "loop"
    /\ Top.gi > Len(Top.groups)

\* the outermost call returns
Return ==
    /\ LoopDone
    /\ Len(stack) = 1
    /\ IF ZipRaises(Top)
       THEN /\ raised' = NotIterable
            /\ pc' = "raised"
            /\ UNCHANGED <<result, returned>>
       ELSE /\ result' = Recombine(Top)
            /\ returned' = Returned(Top)
            /\ pc' = "done"
            /\ UNCHANGED raised
    /\ stack' = <<>>
    /\ UNCHANGED <<measurements, measurements0, shots, state, prng_key>>
    /\ UNCHANGED keyVars
    /\ UNCHANGED <<mid_measurements, rotation, seedVars, outsideCall>>

\* a recursive call returns into _sum_for_single_shot; after the last shot
\* copy the strategy returns its one-entry list (lines 411-414, 442-445)
ReturnTerms ==
    /\ LoopDone
    /\ Len(stack) > 1
    /\ LET caller == stack[Len(stack) - 1]
           mp     == caller.groups[caller.gi][1]
           value  == SumForSingleShot(mp, Strategy(caller.groups[caller.gi]),
                                      Recombine(Top), caller.shots[caller.copy])
           unsqueezed_results == Append(caller.sub, value)
           back   == IF caller.copy < num_copies(caller.shots)
                     THEN [caller EXCEPT !.copy = @ + 1, !.sub = unsqueezed_results]
                     ELSE [caller EXCEPT
                             !.copy = 1, !.sub = <<>>, !.gi = @ + 1,
                             !.all_res = @ \o
                                 (IF has_partitioned_shots(caller.shots)
                                  THEN <<unsqueezed_results>>
                                  ELSE <<unsqueezed_results[1]>>)]
       IN  stack' = Append(SubSeq(stack, 1, Len(stack) - 2), back)
    /\ returned' = Returned(Top)
    /\ UNCHANGED <<measurements, measurements0, shots, state, prng_key, result, raised, pc>>
    /\ UNCHANGED keyVars
    /\ UNCHANGED <<mid_measurements, rotation, seedVars, outsideCall>>

----------------------------------------------------------------------------
(* The samplers on concrete distributions: the draws and the conversion of *)
(* a drawn basis-state index to bits. A row of probabilities is abstracted *)
(* to the basis states of non-zero probability, whether it holds a NaN,    *)
(* and how far its sum is from 1 in units of 1e-8.                         *)

\* most wires sampled
MaxWires == 2

\* most shots of one sample_probs call
MaxShots == 2

SamplerIdle ==
    /\ sample_call = NoCall
    /\ choices = <<>>
    /\ sample_out = NoCall

\* lines 531 and 568: arange(2**num_wires)
basis_states(num_wires) == 0 .. (2^num_wires - 1)

Row(nan, err, nonzero) == [nan |-> nan, err |-> err, nonzero |-> nonzero]

\* a & b on non-negative integers
RECURSIVE BitAnd(_, _)
BitAnd(a, b) ==
    IF a = 0 \/ b = 0 THEN 0
    ELSE (a % 2) * (b % 2) + 2 * BitAnd(a \div 2, b \div 2)

arange(n) == [i \in 1..n |-> i - 1]

Reverse(s) == [i \in 1..Len(s) |-> s[Len(s) + 1 - i]]

powers_of_two_unreversed(num_wires) ==
    [j \in 1..num_wires |-> 2^(arange(num_wires)[j])]

\* lines 539 and 582: 1 << arange(num_wires)[::-1]
powers_of_two(num_wires) ==
    LET a == Reverse(arange(num_wires))
    IN  [j \in 1..num_wires |-> 2^(a[j])]

\* lines 540 and 583 for one sample: sample & powers_of_two
states_sampled_base_ten(sample, num_wires) ==
    LET p == powers_of_two(num_wires)
    IN  [j \in 1..num_wires |-> BitAnd(sample, p[j])]

\* lines 541 and 584 for one sample: (states_sampled_base_ten > 0) as integers
greater_than_zero(masked) ==
    [j \in 1..Len(masked) |-> IF masked[j] > 0 THEN 1 ELSE 0]

\* lines 539-541: the bit array of the samples, (shots, n) or (batch, shots, n)
numpy_bits(samples, num_wires, batched) ==
    LET one(x) == greater_than_zero(states_sampled_base_ten(x, num_wires))
        shot_axis(r) == [k \in 1..Len(r) |-> one(r[k])]
    IN  IF batched THEN [b \in 1..Len(samples) |-> shot_axis(samples[b])]
        ELSE shot_axis(samples)

\* lines 582-584
jax_bits(samples, num_wires, batched) ==
    LET one(x) == greater_than_zero(states_sampled_base_ten(x, num_wires))
        shot_axis(r) == [k \in 1..Len(r) |-> one(r[k])]
    IN  IF batched THEN [b \in 1..Len(samples) |-> shot_axis(samples[b])]
        ELSE shot_axis(samples)

\* rng.choice(basis_states, shots, p=p): the arrays it can return
numpy_choice(p, nshots) == [1..nshots -> p.nonzero]

\* jax.random.choice(key, basis_states, shape=(shots,), p=prob); on a row
\* holding a NaN the cumulative sums compare false with every uniform draw,
\* so all shots get one index, which one is left to the library
jax_choice(p, nshots) ==
    IF p.nan THEN {[k \in 1..nshots |-> x] : x \in p.nonzero}
    ELSE [1..nshots -> p.nonzero]

\* the sequences that take their i-th entry from the i-th set
RECURSIVE SeqProduct(_)
SeqProduct(sets) ==
    IF sets = <<>> THEN {<<>>}
    ELSE {<<h>> \o t : h \in Head(sets), t \in SeqProduct(Tail(sets))}

StackedFromFirstRow(probs, nshots) ==
    SeqProduct([b \in 1..Len(probs) |-> numpy_choice(probs[1], nshots)])

\* line 534: np.stack([rng.choice(basis_states, shots, p=p) for p in probs])
Stacked(probs, nshots) ==
    SeqProduct([b \in 1..Len(probs) |-> numpy_choice(probs[b], nshots)])

\* lines 572-577: one jax.random.choice per batch element
StackedJax(probs, nshots) ==
    SeqProduct([b \in 1..Len(probs) |-> jax_choice(probs[b], nshots)])

SampleOut(error, bits) == [called |-> TRUE, error |-> error, bits |-> bits]

\* line 503: the JAX sampler is taken for JAX probabilities or a given key
TakesJax(c) == c.interface = "jax" \/ c.prng_key.present

\* _sample_probs_numpy, lines 522-541
SampleProbsNumpy ==
    /\ sample_call.called
    /\ sample_out = NoCall
    /\ ~TakesJax(sample_call)
    /\ LET c == sample_call
       IN  IF \E b \in DOMAIN c.probs : NormErrAboveCutoff(c.probs[b])
           THEN /\ sample_out' = SampleOut(NotNormalized, <<>>)
                /\ choices' = <<>>
           ELSE IF \E b \in DOMAIN c.probs : c.probs[b].nan
           THEN /\ sample_out' = SampleOut(ContainNaN, <<>>)
                /\ choices' = <<>>
           ELSE \E d \in Stacked(c.probs, c.shots) :
                  LET samples == IF c.is_state_batched THEN d ELSE d[1]
                  IN  /\ choices' = samples
                      /\ sample_out' = SampleOut(NoError,
                             numpy_bits(samples, c.num_wires, c.is_state_batched))
    /\ UNCHANGED <<sample_call, keyVars>>
    /\ UNCHANGED outsideSampler

\* _sample_probs_jax, lines 565-584
SampleProbsJax ==
    /\ sample_call.called
    /\ sample_out = NoCall
    /\ TakesJax(sample_call)
    /\ LET c == sample_call
       IN  \E d \in StackedJax(c.probs, c.shots) :
             LET samples == IF c.is_state_batched THEN d ELSE d[1]
             IN  /\ choices' = samples
                 /\ sample_out' = SampleOut(NoError,
                        jax_bits(samples, c.num_wires, c.is_state_batched))
    /\ LET use == JaxKeyUse(sample_call.prng_key, sample_call.is_state_batched,
                            Len(sample_call.probs))
       IN  /\ key_splits' = key_splits \cup use.splits
           /\ key_draws' = key_draws \o use.draws
    /\ UNCHANGED sample_call
    /\ UNCHANGED outsideSampler

----------------------------------------------------------------------------
(* Execution accounting: get_num_shots_and_executions and its helpers      *)

\* most requests on an accounted tape
MaxTapeReqs == 2

\* most terms of a Hamiltonian whose wire groups are counted
MaxTerms == 3

\* obs.grouping_indices: None unless the observable carries cached indices
grouping_indices(o) ==
    IF "grouping_indices" \in DOMAIN o THEN o.grouping_indices ELSE <<>>

\* the observable o with cached grouping indices
Grouped(o, indices) ==
    [shape |-> o.shape, word |-> o.word, terms |-> o.terms, grouping_indices |-> indices]

\* isinstance(o, qml.Identity)
IsIdentity(o) == o.shape = "PauliWord" /\ \A i \in DOMAIN o.word : o.word[i] = "I"

\* o.wires; the opaque Hermitian observable acts on the first wire
RECURSIVE WiresOf(_)
WiresOf(o) ==
    CASE o.shape = "PauliWord" -> {i \in DOMAIN o.word : o.word[i] # "I"}
      [] o.shape = "Hermitian" -> {1}
      [] OTHER -> UNION {WiresOf(o.terms[i].op) : i \in DOMAIN o.terms}

\* lines 113-128: the loop over obs_list from its i-th operand on
RECURSIVE WireGroupsFrom(_, _, _, _, _)
WireGroupsFrom(obs_list, i, wires_list, added_obs, num_groups) ==
    IF i > Len(obs_list) THEN num_groups
    ELSE LET o == obs_list[i]
         IN  IF o \in Range(added_obs) \/ IsIdentity(o)
             THEN WireGroupsFrom(obs_list, i + 1, wires_list, added_obs, num_groups)
             ELSE IF \E k \in DOMAIN wires_list : wires_list[k] \cap WiresOf(o) = {}
             THEN WireGroupsFrom(obs_list, i + 1, wires_list, Append(added_obs, o),
                                 num_groups)
             ELSE WireGroupsFrom(obs_list, i + 1, Append(wires_list, WiresOf(o)),
                                 Append(added_obs, o), num_groups + 1)

\* _get_num_wire_groups_for_expval_H, lines 109-129
get_num_wire_groups_for_expval_H(obs) ==
    WireGroupsFrom([i \in DOMAIN TermsOf(obs) |-> TermsOf(obs)[i].op], 1, <<>>, <<>>, 0)

get_num_executions_ignoring_indices(obs) == get_num_wire_groups_for_expval_H(obs)

\* _get_num_executions_for_expval_H, lines 102-106
get_num_executions_for_expval_H(obs) ==
    IF grouping_indices(obs) # <<>> THEN Len(grouping_indices(obs))
    ELSE get_num_wire_groups_for_expval_H(obs)

\* obs.pauli_rep is not None: every leaf is a Pauli word
RECURSIVE HasPauliRep(_)
HasPauliRep(o) ==
    CASE o.shape = "PauliWord" -> TRUE
      [] o.shape \in {"None", "Hermitian"} -> FALSE
      [] OTHER -> \A i \in DOMAIN o.terms : HasPauliRep(o.terms[i].op)

\* two operands may share a group of qml.pauli.group_observables when their
\* words commute qubit-wise
QubitWiseCommute(a, b) ==
    LET word(o) == IF o.shape = "SProd" THEN o.terms[1].op.word ELSE o.word
    IN  /\ Len(word(a)) = Len(word(b))
        /\ \A i \in DOMAIN word(a) :
             word(a)[i] = "I" \/ word(b)[i] = "I" \/ word(a)[i] = word(b)[i]

\* len(qml.pauli.group_observables(ops)): the group counts of the partitions
\* of ops into groups of qubit-wise commuting operands
group_observables_counts(ops) ==
    {Cardinality(Range(col)) : col \in
        {f \in [DOMAIN ops -> DOMAIN ops] :
            \A i, j \in DOMAIN ops : f[i] = f[j] => QubitWiseCommute(ops[i], ops[j])}}

\* _get_num_executions_for_sum, lines 132-143; op_groups is the number of
\* groups group_observables returns
get_num_executions_for_sum(obs, op_groups) ==
    LET ops == [i \in DOMAIN TermsOf(obs) |-> TermsOf(obs)[i].op]
    IN  IF grouping_indices(obs) # <<>> THEN Len(grouping_indices(obs))
        ELSE IF ~HasPauliRep(obs)
        THEN SumSeq([i \in DOMAIN ops |-> IF IsIdentity(ops[i]) THEN 0 ELSE 1])
        ELSE op_groups

\* the group counts group_observables may be asked for on the group's observable
OpGroupChoices(group) ==
    IF group[1].kind = "expval" /\ group[1].obs.shape = "Sum"
       /\ grouping_indices(group[1].obs) = <<>> /\ HasPauliRep(group[1].obs)
    THEN group_observables_counts(
             [i \in DOMAIN TermsOf(group[1].obs) |-> TermsOf(group[1].obs)[i].op])
    ELSE {0}

\* bool(tape.shots): Shots(None) is the empty sequence of shot counts
HasShots(sh) == sh # <<>>

TypeError == "unsupported operand type(s) for +=: 'int' and 'NoneType'"

ShadowShotsSquared(sh) == total_shots(sh) * total_shots(sh)

\* lines 175-176: what a shadow-type group adds to num_shots
ShadowShots(sh) == total_shots(sh)

\* lines 160-180: what one group adds to num_executions and to num_shots
GroupCost(group, sh, op_groups) ==
    LET mp == group[1]
        runs == IF mp.kind = "expval" /\ mp.obs.shape = "LinearCombination"
                THEN get_num_executions_for_expval_H(mp.obs)
                ELSE IF mp.kind = "expval" /\ IsSum(mp.obs)
                THEN get_num_executions_for_sum(mp.obs, op_groups)
                ELSE IF IsShadow(mp) THEN total_shots(sh)
                ELSE 1
    IN  [error      |-> IF IsShadow(mp) /\ ~HasShots(sh) THEN TypeError ELSE NoError,
         executions |-> runs,
         shots      |-> IF ~HasShots(sh) THEN 0
                        ELSE IF IsShadow(mp) THEN ShadowShots(sh)
                        ELSE total_shots(sh) * runs]

UnscaledByBatch(n, batch_size) == n

\* lines 182-185: the totals times tape.batch_size, when there is one
ScaledByBatch(n, batch_size) == IF batch_size # 0 THEN n * batch_size ELSE n

\* lines 156-186 after grouping: the value returned for the groups
CostOf(groups, sh, batch_size, op_groups) ==
    LET costs == [g \in DOMAIN groups |-> GroupCost(groups[g], sh, op_groups[g])]
    IN  IF \E g \in DOMAIN costs : costs[g].error # NoError
        THEN [called |-> TRUE, error |-> TypeError, executions |-> 0, shots |-> 0]
        ELSE [called |-> TRUE, error |-> NoError,
              executions |-> ScaledByBatch(
                  SumSeq([g \in DOMAIN costs |-> costs[g].executions]), batch_size),
              shots |-> ScaledByBatch(
                  SumSeq([g \in DOMAIN costs |-> costs[g].shots]), batch_size)]

Tape(mps, sh, batch_size) ==
    [called |-> TRUE, measurements |-> mps, shots |-> sh, batch_size |-> batch_size]

TapeIdle == tape = NoCall /\ tape0 = NoCall /\ tape_groups = <<>> /\ accounting = NoCall

\* get_num_shots_and_executions, lines 146-186; the grouper rewrites the
\* observables of the tape's own request objects
GetNumShotsAndExecutions ==
    /\ tape # NoCall
    /\ accounting = NoCall
    /\ \E part \in IF NumPauli(tape.measurements) = 0 THEN {<<>>}
                   ELSE compute_partition_indices(NumPauli(tape.measurements)) :
         LET g == group_measurements(tape.measurements, part)
         IN  \E op_groups \in SeqProduct([k \in DOMAIN g.groups |->
                                              OpGroupChoices(g.groups[k])]) :
               /\ tape' = [tape EXCEPT !.measurements = g.mps]
               /\ tape_groups' = g.groups
               /\ accounting' = CostOf(g.groups, tape.shots, tape.batch_size, op_groups)
    /\ UNCHANGED tape0
    /\ UNCHANGED outsideTape

----------------------------------------------------------------------------
(* ops/qubit/observables.py: the eigendecomposition cache of Hermitian     *)

\* a Hermitian observable: its matrix, as rows, and its wires
HermitianOn(A, wires) == [matrix |-> A, wires |-> wires]

\* line 157: tuple(Hmat.flatten().tolist())
Hkey(A) == Flatten(A)

\* line 159: np.linalg.eigh(Hmat); id tells the arrays of one call from
\* those of another
eigh(A, id) ==
    [eigvec |-> [what |-> "U", of |-> A, id |-> id],
     eigval |-> [what |-> "w", of |-> A, id |-> id]]

NeverInCache(key, cache) == FALSE

\* line 158: Hkey in Hermitian._eigs
InCache(key, cache) == key \in DOMAIN cache

\* lines 158-160: the cache after the property was read for matrix A
CacheAfter(A, cache, id) ==
    IF InCache(Hkey(A), cache) THEN cache
    ELSE [k \in DOMAIN cache \cup {Hkey(A)} |->
             IF k = Hkey(A) THEN eigh(A, id) ELSE cache[k]]

NoEigs == [k \in {} |-> NoCall]

CacheIdle ==
    /\ eigs = NoEigs
    /\ eigh_calls = <<>>
    /\ served = {}
    /\ eig_result = NoCall

\* the property eigendecomposition, lines 143-162, read by the method named
ReadEigendecomposition(obs, method) ==
    LET computes == ~InCache(Hkey(obs.matrix), eigs)
        cache    == CacheAfter(obs.matrix, eigs, Len(eigh_calls) + 1)
        entry    == cache[Hkey(obs.matrix)]
    IN  /\ eigs' = cache
        /\ eigh_calls' = IF computes THEN Append(eigh_calls, Hkey(obs.matrix))
                         ELSE eigh_calls
        /\ served' = served \cup {<<obs.matrix, obs.wires, entry>>}
        /\ eig_result' =
             [called |-> TRUE, obs |-> obs, method |-> method,
              value |-> CASE method = "eigendecomposition" -> entry
                          [] method = "eigvals" -> entry.eigval
                          [] OTHER -> <<[op |-> "QubitUnitary",
                                         matrix |-> [conjT |-> entry.eigvec],
                                         wires |-> obs.wires]>>]
        /\ UNCHANGED outsideCache

\* Hermitian observables on wire 0 or wire 1 whose matrix is the identity,
\* Pauli X or the projector on |0>
HermitianObservables ==
    {HermitianOn(A, w) :
        A \in { << <<1, 0>>, <<0, 1>> >>, << <<0, 1>>, <<1, 0>> >>,
                << <<1, 0>>, <<0, 0>> >> },
        w \in {<<0>>, <<1>>}}

\* obs.eigendecomposition, lines 143-162
Eigendecomposition ==
    \E obs \in HermitianObservables : ReadEigendecomposition(obs, "eigendecomposition")

\* obs.eigvals(), lines 164-174
Eigvals ==
    \E obs \in HermitianObservables : ReadEigendecomposition(obs, "eigvals")

\* obs.diagonalizing_gates(), lines 253-261
DiagonalizingGates ==
    \E obs \in HermitianObservables : ReadEigendecomposition(obs, "diagonalizing_gates")

----------------------------------------------------------------------------
(* ops/qubit/observables.py: the class Projector(state, wires) constructs  *)

ValueError == "ValueError"

\* the state argument: its shape, its interface, whether its dtype is an
\* integer or boolean one, and whether its entries cast to int are all 0 or 1
ProjectorState(shape, interface, integral, binary) ==
    [shape |-> shape, interface |-> interface, integral |-> integral, binary |-> binary]

ProjectorNewSwapped(st, num_wires) ==
    IF Len(st.shape) # 1 THEN ValueError
    ELSE IF st.shape[1] = num_wires THEN "StateVectorProjector"
    ELSE IF st.shape[1] = 2^num_wires THEN "BasisStateProjector"
    ELSE ValueError

\* Projector.__new__, lines 461-496: the class of the object, or the error
ProjectorNew(st, num_wires) ==
    IF Len(st.shape) # 1 THEN ValueError
    ELSE IF st.shape[1] = num_wires THEN "BasisStateProjector"
    ELSE IF st.shape[1] = 2^num_wires THEN "StateVectorProjector"
    ELSE ValueError

\* BasisStateProjector.__init__, lines 515-524: the state is rejected
BasisInitRaises(st) ==
    IF st.interface = "jax" THEN ~st.integral ELSE ~st.binary

\* Projector(state, wires): __new__, then the __init__ of the class it chose
\* (StateVectorProjector.__init__, lines 694-696, checks nothing)
ProjectorCall(st, num_wires) ==
    LET cls == ProjectorNew(st, num_wires)
    IN  [state |-> st, num_wires |-> num_wires, cls |-> cls,
         outcome |-> IF cls = "BasisStateProjector" /\ BasisInitRaises(st)
                     THEN ValueError ELSE cls]

\* the states constructed from: scalars, vectors of every length up to one
\* past 2^MaxWires, and matrices
ProjectorStates ==
    {ProjectorState(shape, kind[1], kind[2], kind[3]) :
        shape \in {<<>>, <<2, 2>>} \cup {<<n>> : n \in 0..(2^MaxWires + 1)},
        kind \in {<<"numpy", TRUE, TRUE>>, <<"numpy", FALSE, FALSE>>,
                  <<"jax", TRUE, TRUE>>, <<"jax", FALSE, TRUE>>}}

Construct ==
    /\ \E st \in ProjectorStates, num_wires \in 1..MaxWires :
         constructed' = IF constructed = <<>> THEN <<ProjectorCall(st, num_wires)>>
                        ELSE <<constructed[Len(constructed)], ProjectorCall(st, num_wires)>>
    /\ UNCHANGED outsideProjector

----------------------------------------------------------------------------
(* Specifications *)

InitCall(lists, shotsInputs, callInputs, mids) ==
    /\ measurements \in lists
    /\ measurements0 = measurements
    /\ shots \in shotsInputs
    /\ \E c \in callInputs : state = c.state /\ prng_key = c.key
    /\ mid_measurements \in mids
    /\ stack = <<[Frame(measurements, shots, prng_key) EXCEPT !.mid = mid_measurements]>>
    /\ result = <<>>
    /\ raised = NoError
    /\ returned = NothingReturned
    /\ pc = "run"
    /\ SamplerIdle
    /\ KeysIdle
    /\ CacheIdle
    /\ constructed = <<>>
    /\ RotationIdle
    /\ rng_draws = 0
    /\ earlier = NoCall

\* a call of measure_with_samples and nothing else, rng an integer seed
InitMeasure(lists, shotsInputs, callInputs, mids) ==
    /\ InitCall(lists, shotsInputs, callInputs, mids)
    /\ rng = IntSeed(7)
    /\ TapeIdle

\* a call without mid_measurements
InitWith(lists, shotsInputs, callInputs) ==
    InitMeasure(lists, shotsInputs, callInputs, {<<>>})

\* measure_with_samples on lists of distinct requests, called without
\* mid_measurements (lines 237 and 267 take their else branch); rng is only
\* handed on to the samplers
Init == InitWith(DistinctRequestLists(SampledRequests), ShotsInputs, CallInputs)

Next ==
    \/ GroupMeasurements
    \/ MeasureWithDiagonalizingGates
    \/ MeasureClassicalShadow
    \/ MeasureTerms
    \/ Return
    \/ ReturnTerms

Spec == Init /\ [][Next]_vars

\* _group_measurements alone, on every list over the larger request set
InitGroup ==
    InitWith(RequestLists(GroupedRequests), {<<2>>},
             {[state |-> State("numpy", FALSE, <<Elem(FALSE, 0)>>), key |-> NoKey]})

NextGroup == GroupMeasurements

SpecGroup == InitGroup /\ [][NextGroup]_vars

\* the observable of a request on a mid-circuit measurement value
MeasurementValue == [shape |-> "MeasurementValue", word |-> <<>>, terms |-> <<>>]

\* lists of up to MaxReqs sampled requests followed by one or two requests
\* on mid-circuit measurements, and lists of such requests only
MidLists ==
    {WithIds(l \o [k \in 1..m |-> [kind |-> "expval", obs |-> MeasurementValue]]) :
        l \in {[i \in DOMAIN r |-> [kind |-> r[i].kind, obs |-> r[i].obs]] :
                  r \in DistinctRequestLists({q \in SampledRequests :
                            q.obs \in {X0, Hermitian, None}
                            \/ q.obs.shape = "LinearCombination"})} \cup {<<>>},
        m \in 1..2}

\* measure_with_samples called with mid_measurements, one value per trailing
\* request on a mid-circuit measurement; the values are scalars and
\* per-copy pairs
InitMid ==
    /\ InitMeasure(MidLists, ShotsInputs,
                   {[state |-> State("numpy", FALSE, <<Elem(FALSE, 0)>>), key |-> NoKey],
                    [state |-> State("jax", TRUE, <<Elem(FALSE, 0), Elem(FALSE, 0)>>),
                     key |-> RootKey]},
                   LET V == {MidValue(FALSE, <<0>>), MidValue(FALSE, <<1>>),
                             MidValue(TRUE, <<0, 1>>)}
                   IN  [1..1 -> V] \cup [1..2 -> V])
    /\ Len(mid_measurements) =
           Cardinality({i \in DOMAIN measurements : measurements[i].obs = MeasurementValue})

SpecMid == InitMid /\ [][Next]_vars

\* no measure_with_samples call is in progress
CallIdle ==
    /\ measurements = <<>>
    /\ measurements0 = <<>>
    /\ shots = <<>>
    /\ state = State("numpy", FALSE, <<>>)
    /\ prng_key = NoKey
    /\ mid_measurements = <<>>
    /\ stack = <<>>
    /\ result = <<>>
    /\ raised = NoError
    /\ returned = NothingReturned
    /\ pc = "done"
    /\ rng = NoSeed
    /\ rng_draws = 0
    /\ earlier = NoCall

\* the rows sample_probs is called on: certain outcomes, two equally likely
\* outcomes, a row of NaNs and a row whose sum is off by more than the cutoff
Rows(num_wires) ==
    {Row(FALSE, 0, {x}) : x \in basis_states(num_wires)}
    \cup {Row(FALSE, 0, {x, x + 1}) : x \in {y \in basis_states(num_wires) : y % 2 = 0}}
    \cup {Row(TRUE, 0, basis_states(num_wires)),
          Row(FALSE, cutoff + 1, {0})}

\* sample_probs called from sample_state (line 485) on each kind of input:
\* a setting is (interface of the probabilities, prng_key), a batched state
\* has one or two rows
InitSample ==
    /\ CallIdle
    /\ KeysIdle
    /\ TapeIdle
    /\ CacheIdle
    /\ constructed = <<>>
    /\ RotationIdle
    /\ choices = <<>>
    /\ sample_out = NoCall
    /\ \E n \in 1..MaxWires, k \in 1..MaxShots, batched \in BOOLEAN,
          setting \in {<<"numpy", NoKey>>, <<"jax", NoKey>>, <<"numpy", RootKey>>} :
         \E probs \in UNION {[1..B -> Rows(n)] :
                                B \in IF batched THEN {1, 2} ELSE {1}} :
           sample_call = [called |-> TRUE, probs |-> probs, shots |-> k,
                          num_wires |-> n, is_state_batched |-> batched,
                          interface |-> setting[1], prng_key |-> setting[2]]

NextSample ==
    \/ SampleProbsNumpy
    \/ SampleProbsJax

SpecSample == InitSample /\ [][NextSample]_vars

\* the requests of the accounted tapes; two of them are sums of two Pauli
\* terms with one cached grouping index per term
TapeRequests ==
    { [kind |-> "expval", obs |-> X0],
      [kind |-> "expval", obs |-> Z1],
      [kind |-> "sample", obs |-> None],
      [kind |-> "counts", obs |-> None],
      [kind |-> "expval", obs |-> Hermitian],
      [kind |-> "expval", obs |-> SProd(2, Z0)],
      [kind |-> "classical_shadow", obs |-> None],
      [kind |-> "expval",
       obs |-> Grouped(LinearCombination(<<Term(2, X0), Term(3, Z1)>>),
                       << <<0>>, <<1>> >>)],
      [kind |-> "expval", obs |-> Grouped(SumOf(<<X0, Z1>>), << <<0>>, <<1>> >>)],
      [kind |-> "expval", obs |-> LinearCombination(<<Term(2, X0), Term(3, Z0)>>)],
      [kind |-> "expval", obs |-> SumOf(<<X0Z1, SumOf(<<Z0, Z0>>)>>)],
      [kind |-> "expval", obs |-> SumOf(<<X0, Hermitian>>)] }

\* get_num_shots_and_executions on each tape of up to MaxTapeReqs requests;
\* tape.shots is no shots, one shot count or a partition into two copies,
\* tape.batch_size is 0 (standing for None), 1 or 3
InitAccounting ==
    /\ CallIdle
    /\ KeysIdle
    /\ SamplerIdle
    /\ CacheIdle
    /\ constructed = <<>>
    /\ RotationIdle
    /\ \E n \in 1..MaxTapeReqs, sh \in { <<>>, <<2>>, <<1, 2>> }, b \in {0, 1, 3} :
         \E l \in [1..n -> TapeRequests] : tape = Tape(WithIds(l), sh, b)
    /\ tape0 = tape
    /\ tape_groups = <<>>
    /\ accounting = NoCall

SpecAccounting == InitAccounting /\ [][GetNumShotsAndExecutions]_vars

\* a process in which nothing but Hermitian methods and Projector
\* constructions run
InitObservables ==
    /\ CallIdle
    /\ KeysIdle
    /\ SamplerIdle
    /\ TapeIdle
    /\ CacheIdle
    /\ constructed = <<>>
    /\ RotationIdle

\* the Hermitian methods that read the cache, called in any order on any
\* of the observables
NextCache ==
    \/ Eigendecomposition
    \/ Eigvals
    \/ DiagonalizingGates

SpecCache == InitObservables /\ [][NextCache]_vars

SpecProjector == InitObservables /\ [][Construct]_vars

\* the members of the groups _apply_diagonalizing_gates is called on
GateRequests ==
    { [kind |-> "expval", obs |-> X0],
      [kind |-> "expval", obs |-> Z1],
      [kind |-> "sample", obs |-> X0Z1],
      [kind |-> "expval", obs |-> PauliWord(<<"I", "Y">>)],
      [kind |-> "expval", obs |-> PauliWord(<<"Y", "X">>)],
      [kind |-> "expval", obs |-> Hermitian],
      [kind |-> "sample", obs |-> None],
      [kind |-> "counts", obs |-> None] }

\* a group of several members that all carry an observable holds Pauli
\* words that commute qubit-wise
Diagonalizable(group) ==
    \/ Len(group) = 1
    \/ \E i \in DOMAIN group : group[i].obs = None
    \/ \A i, j \in DOMAIN group :
          /\ group[i].obs.shape = "PauliWord"
          /\ QubitWiseCommute(group[i].obs, group[j].obs)

\* _apply_diagonalizing_gates on each group, on a fresh state and on a
\* state that a gate of the circuit was applied to
InitGates ==
    /\ CallIdle
    /\ KeysIdle
    /\ SamplerIdle
    /\ TapeIdle
    /\ CacheIdle
    /\ constructed = <<>>
    /\ \E n \in 1..MaxReqs, st \in {<<>>, <<Gate("circuit", "X", 0)>>} :
         \E l \in {g \in [1..n -> GateRequests] : Diagonalizable(g)} :
            rotation = Rotation(WithIds(l), st, FALSE, st)

SpecGates == InitGates /\ [][ApplyDiagonalizingGates]_vars

\* the requests of the tapes that are both accounted and measured: their
\* groups use the default or the classical-shadow strategy
EstimatedRequests ==
    { [kind |-> "expval", obs |-> X0],
      [kind |-> "expval", obs |-> Z1],
      [kind |-> "sample", obs |-> None],
      [kind |-> "expval", obs |-> Hermitian],
      [kind |-> "classical_shadow", obs |-> None],
      [kind |-> "shadow_expval", obs |-> X0] }

\* an unbatched tape with finite shots is accounted, then its requests are
\* measured with its shots
InitEstimate ==
    /\ InitCall(DistinctRequestLists(EstimatedRequests), ShotsInputs,
                {[state |-> State("numpy", FALSE, <<Elem(FALSE, 0)>>), key |-> NoKey],
                 [state |-> State("jax", FALSE, <<Elem(FALSE, 0)>>), key |-> RootKey]},
                {<<>>})
    /\ rng = IntSeed(7)
    /\ tape = Tape(measurements, shots, 0)
    /\ tape0 = tape
    /\ tape_groups = <<>>
    /\ accounting = NoCall

NextEstimate ==
    \/ GetNumShotsAndExecutions
    \/ accounting # NoCall /\ Next

SpecEstimate == InitEstimate /\ [][NextEstimate]_vars

\* requests among which the partition routine is given at most one Pauli
\* word, in the outermost call and in the recursive call for the Sum, so
\* that the grouping is the same whenever the call is repeated
SeededRequests ==
    { [kind |-> "expval", obs |-> Z1],
      [kind |-> "sample", obs |-> None],
      [kind |-> "expval", obs |-> Hermitian],
      [kind |-> "classical_shadow", obs |-> None],
      [kind |-> "expval", obs |-> SumOf(<<X0, Hermitian>>)] }

\* measure_with_samples with each kind of rng, on NumPy and JAX states,
\* with and without a backend key
InitSeed ==
    /\ InitCall(DistinctRequestLists(SeededRequests), ShotsInputs,
                {[state |-> State("numpy", FALSE, <<Elem(FALSE, 0)>>), key |-> NoKey],
                 [state |-> State("numpy", TRUE, <<Elem(FALSE, 0), Elem(FALSE, 0)>>),
                  key |-> NoKey],
                 [state |-> State("jax", FALSE, <<Elem(FALSE, 0)>>), key |-> NoKey],
                 [state |-> State("jax", FALSE, <<Elem(FALSE, 0)>>), key |-> RootKey]},
                {<<>>})
    /\ rng \in {NoSeed, IntSeed(7), GeneratorObject}
    /\ TapeIdle

\* measure_with_samples is called again with the arguments of the call that
\* has returned: the same requests, shots, state, key and rng
Reinvoke ==
    /\ pc = "done"
    /\ earlier = NoCall
    /\ earlier' = [called |-> TRUE, result |-> result]
    /\ measurements' = measurements0
    /\ stack' = <<[Frame(measurements0, shots, prng_key) EXCEPT !.mid = mid_measurements]>>
    /\ result' = <<>>
    /\ returned' = NothingReturned
    /\ pc' = "run"
    /\ UNCHANGED <<measurements0, shots, state, prng_key, raised, rng, rng_draws>>
    /\ UNCHANGED keyVars
    /\ UNCHANGED <<mid_measurements, rotation, outsideCall>>

NextSeed ==
    \/ Next
    \/ Reinvoke

SpecSeed == InitSeed /\ [][NextSeed]_vars

\* most levels of sums nested in a measured observable
MaxDepth == 2

\* a Sum nested d levels deep
RECURSIVE Nested(_)
Nested(d) == IF d = 0 THEN Z0 ELSE SumOf(<<X0Z1, Nested(d - 1)>>)

\* requests with observables of every nesting depth up to MaxDepth, as a
\* Sum and as a Hamiltonian, next to requests of the other strategies
NestedRequests ==
    { [kind |-> "expval", obs |-> Nested(d)] : d \in 0..MaxDepth }
    \cup { [kind |-> "expval",
            obs |-> LinearCombination(<<Term(2, X0), Term(3, Nested(MaxDepth - 1))>>)],
          [kind |-> "sample", obs |-> None],
          [kind |-> "classical_shadow", obs |-> None] }

\* measure_with_samples on one or two nested requests, on a state the
\* sampler accepts and on one it raises for
InitLive ==
    InitWith({ WithIds(<<a>>) : a \in NestedRequests }
             \cup { WithIds(<<p[1], p[2]>>) :
                      p \in { q \in NestedRequests \X NestedRequests : q[1] # q[2] } },
             ShotsInputs,
             {[state |-> State("numpy", FALSE, <<Elem(FALSE, 0)>>), key |-> NoKey],
              [state |-> State("numpy", FALSE, <<Elem(FALSE, 11)>>), key |-> NoKey]})

\* the guards of the six steps of Next: a running call is grouping, at a
\* group of one of the four strategies, or at the end of its loop
CanStep ==
    /\ pc = "run"
    /\ stack # <<>>
    /\ \/ Top.pc = "group"
       \/ AtGroup({"default", "shadow", "hamiltonian", "sum"})
       \/ LoopDone

\* weak fairness of Next, WF_vars(Next), written out: Next is enabled
\* exactly in the states of CanStep, and under [][Next]_vars the steps that
\* change vars are the Next steps. The call runs on one thread, so a step
\* that can be taken is taken
Fairness == []<>(~CanStep) \/ []<><<TRUE>>_vars

SpecLive == InitLive /\ [][Next]_vars /\ Fairness

\* the terms of the Hamiltonians whose wire groups are counted: the
\* identity and Pauli words on wire 0, on wire 1 and on both
CountedTerms ==
    { PauliWord(<<"I", "I">>), X0, Z1, PauliWord(<<"I", "X">>), X0Z1 }

\* get_num_shots_and_executions on an unbatched tape whose one request is
\* the expectation value of a Hamiltonian of up to MaxTerms terms without
\* cached grouping indices: its executions are the wire-group count
InitWireGroups ==
    /\ CallIdle
    /\ KeysIdle
    /\ SamplerIdle
    /\ CacheIdle
    /\ constructed = <<>>
    /\ RotationIdle
    /\ \E n \in 0..MaxTerms : \E ops \in [1..n -> CountedTerms] :
         tape = Tape(<<ExpectationMP(0,
                          LinearCombination([i \in 1..n |-> Term(i, ops[i])]))>>,
                     <<2>>, 0)
    /\ tape0 = tape
    /\ tape_groups = <<>>
    /\ accounting = NoCall

SpecWireGroups == InitWireGroups /\ [][GetNumShotsAndExecutions]_vars

----------------------------------------------------------------------------
(* Properties of the grouper, stated on every call that has grouped *)

GroupedFrames == { stack[i] : i \in { j \in DOMAIN stack : stack[j].pc = "loop" } }

\* the family of a request in the terms of the grouping rules
Family(mp) ==
    CASE IsShadow(mp) -> "single"
      [] ~IsShadow(mp) /\ mp.obs = None -> "no_obs"
      [] ~IsShadow(mp) /\ mp.obs # None /\ is_pauli_word(mp.obs) -> "pauli"
      [] OTHER -> "single"

\* the 0-based positions of f's requests of family c
ClassPositions(f, c) ==
    { i - 1 : i \in { j \in DOMAIN f.mps : Family(f.mps[j]) = c } }

\* the group of f that holds input position i, 0 when none does
GroupOf(f, i) ==
    IF \E g \in DOMAIN f.indices : i \in Range(f.indices[g])
    THEN CHOOSE g \in DOMAIN f.indices : i \in Range(f.indices[g])
    ELSE 0

SameShape(f) ==
    /\ Len(f.groups) = Len(f.indices)
    /\ \A g \in DOMAIN f.groups : Len(f.groups[g]) = Len(f.indices[g])

\* C2: the groups and the index-groups returned by _group_measurements have
\* the same shape, the index-groups together hold every input position
\* 0..n-1 exactly once, and groups[g][k] is the request at input position
\* index_groups[g][k].
C2_IndexGroupsPartitionInput ==
    \A f \in GroupedFrames :
        Len(f.mps0) >= 1 =>
            /\ SameShape(f)
            /\ Len(Flatten(f.indices)) = Len(f.mps0)
            /\ Range(Flatten(f.indices)) = 0..(Len(f.mps0) - 1)
            /\ \A g \in DOMAIN f.indices : \A k \in DOMAIN f.indices[g] :
                  /\ f.groups[g][k] = f.mps[f.indices[g][k] + 1]
                  /\ f.groups[g][k].id = f.mps0[f.indices[g][k] + 1].id

\* a call whose partition routine returned two groups, the later position first
C2_Witness ==
    \E f \in GroupedFrames :
        /\ Len(f.part) = 2
        /\ Len(f.mps0) = 3
        /\ f.part[1][1] > f.part[2][1]
        /\ Flatten(f.indices) # <<0, 1, 2>>

\* C3: a classical-shadow or shadow-expectation request is the only member
\* of its group, whatever else the list holds.
C3_ShadowGroupsAreSingletons ==
    \A f \in GroupedFrames :
        \A i \in DOMAIN f.mps0 :
            IsShadow(f.mps0[i]) =>
                /\ GroupOf(f, i - 1) # 0
                /\ f.indices[GroupOf(f, i - 1)] = <<i - 1>>
                /\ f.groups[GroupOf(f, i - 1)] = <<f.mps[i]>>

\* a shadow request without observable between two other requests without
\* observable, which share a group that the shadow request is not in
C3_Witness ==
    \E f \in GroupedFrames :
        /\ Len(f.mps0) = 3
        /\ IsShadow(f.mps0[2])
        /\ \A i \in DOMAIN f.mps0 : f.mps0[i].obs = None
        /\ <<0, 2>> \in Range(f.indices)

\* the positions of the non-shadow requests without observable
NoObsPositions(f) ==
    { i - 1 : i \in { j \in DOMAIN f.mps0 :
                        ~IsShadow(f.mps0[j]) /\ f.mps0[j].obs = None } }

\* C4: for two or more requests, the non-shadow requests without observable
\* are together in one group, in input order, with nothing else in it, and
\* no other group holds such a request.
C4_OneNoObservableGroup ==
    \A f \in GroupedFrames :
        (Len(f.mps0) >= 2 /\ NoObsPositions(f) # {}) =>
            /\ Cardinality({ g \in DOMAIN f.indices :
                               Range(f.indices[g]) \cap NoObsPositions(f) # {} }) = 1
            /\ \E g \in DOMAIN f.indices :
                  /\ f.indices[g] = Ascending(NoObsPositions(f))
                  /\ \A k \in DOMAIN f.groups[g] : f.groups[g][k].obs = None

\* two such requests that are not neighbours in the input
C4_Witness ==
    \E f \in GroupedFrames :
        /\ NoObsPositions(f) = {0, 2}
        /\ f.mps0[2].obs # None

\* C5: a request whose observable, as classified, is present and is not a
\* Pauli word is the only member of its group.
C5_NonPauliGroupsAreSingletons ==
    \A f \in GroupedFrames :
        \A g \in DOMAIN f.groups : \A k \in DOMAIN f.groups[g] :
            (f.groups[g][k].obs # None /\ ~is_pauli_word(f.groups[g][k].obs)) =>
                Len(f.groups[g]) = 1

\* a non-Pauli observable in a list that also has a group of two members
C5_Witness ==
    \E f \in GroupedFrames :
        /\ \E i \in DOMAIN f.mps :
              /\ ~IsShadow(f.mps[i])
              /\ f.mps[i].obs # None
              /\ ~is_pauli_word(f.mps[i].obs)
        /\ \E g \in DOMAIN f.groups : Len(f.groups[g]) = 2

GroupRank(f, g) ==
    LET c == Family(f.groups[g][1])
    IN  IF c = "pauli" THEN 1 ELSE IF c = "no_obs" THEN 2 ELSE 3

\* C6: for two or more requests the groups come in the order: the Pauli
\* groups as the partition routine returned them, then the group without
\* observable, then the shadow and other singletons in input order; the
\* index-groups follow the same order.
C6_GroupOrder ==
    \A f \in GroupedFrames :
        Len(f.mps0) >= 2 =>
            /\ SameShape(f)
            /\ Len(f.part) <= Len(f.indices)
            /\ \A g \in DOMAIN f.part :
                  /\ Len(f.indices[g]) = Len(f.part[g])
                  /\ \A k \in DOMAIN f.part[g] :
                        f.indices[g][k] =
                            Ascending(ClassPositions(f, "pauli"))[f.part[g][k] + 1]
            /\ \A g \in DOMAIN f.groups :
                  /\ \A k \in DOMAIN f.groups[g] :
                        /\ Family(f.groups[g][k]) = Family(f.groups[g][1])
                        /\ f.groups[g][k] = f.mps[f.indices[g][k] + 1]
                  /\ GroupRank(f, g) = 1 <=> g <= Len(f.part)
            /\ \A g, h \in DOMAIN f.groups :
                  g < h =>
                      /\ GroupRank(f, g) <= GroupRank(f, h)
                      /\ GroupRank(f, g) = 2 => GroupRank(f, h) = 3
                      /\ GroupRank(f, g) = 3 => f.indices[g][1] < f.indices[h][1]

\* all three families at once, given in the reverse of the group order
C6_Witness ==
    \E f \in GroupedFrames :
        /\ Len(f.part) = 1
        /\ \E g \in DOMAIN f.groups : GroupRank(f, g) = 2
        /\ \E g \in DOMAIN f.groups : GroupRank(f, g) = 3
        /\ Flatten(f.indices) = <<2, 1, 0>>

\* C7 as stated: whatever the length of the list, a request whose observable
\* is Sum- or Hamiltonian-shaped carries its simplified form once
\* _group_measurements has returned.
C7_SimplifiedForEveryList ==
    \A f \in GroupedFrames :
        \A i \in DOMAIN f.mps0 :
            IsSum(f.mps0[i].obs) => f.mps[i].obs = simplify(f.mps0[i].obs)

\* C7 amended: the same for every list of two or more requests.
C7_SimplifiedForTwoOrMore ==
    \A f \in GroupedFrames :
        Len(f.mps0) >= 2 =>
            \A i \in DOMAIN f.mps0 :
                IsSum(f.mps0[i].obs) => f.mps[i].obs = simplify(f.mps0[i].obs)

\* a list of two or more whose Sum observable was not in simplified form
C7_Witness ==
    \E f \in GroupedFrames :
        /\ Len(f.mps0) >= 2
        /\ \E i \in DOMAIN f.mps0 :
              /\ IsSum(f.mps0[i].obs)
              /\ f.mps[i].obs # f.mps0[i].obs

----------------------------------------------------------------------------
(* Properties of measure_with_samples *)

\* a result and every result it was combined from
RECURSIVE ResTree(_)
ResTree(r) ==
    {r} \cup UNION { ResTree(r.parts[i].res) : i \in DOMAIN r.parts }

\* the results a call has collected so far, one per request and shot copy
Collected(f) ==
    IF has_partitioned_shots(f.shots) THEN Flatten(f.all_res) ELSE f.all_res

\* r is the value of the request at position i of the list mps, computed by
\* the strategy that the request's kind and observable select
IsResultOf(r, mps, i) ==
    /\ r.mp = mps[i]
    /\ r.mp.id = i - 1
    /\ r.strategy = Strategy(<<mps[i]>>)

\* C1: with unpartitioned shots a call returns one result per request, and
\* result[i] is the result computed for requests[i], whatever the order in
\* which the groups were processed.
C1_ResultsInRequestOrder ==
    (returned # NothingReturned /\ ~has_partitioned_shots(returned.shots)) =>
        /\ Len(returned.value) = Len(returned.mps0)
        /\ \A i \in DOMAIN returned.mps0 :
              /\ IsResultOf(returned.value[i], returned.mps, i)
              /\ returned.value[i].mp.kind = returned.mps0[i].kind

\* the outermost call returned three results whose groups were processed in
\* another order than the requests' (the last request first)
C1_Witness ==
    /\ pc = "done"
    /\ ~has_partitioned_shots(shots)
    /\ Len(result) = 3
    /\ returned.value = result
    /\ Flatten(returned.indices)[1] = 2

\* C8: with shots partitioned into k copies a call on n requests returns k
\* entries of n results each, and entry [p][j] is the result of request j,
\* computed (terms of a Hamiltonian or Sum included) from the p-th shot count.
C8_ShotAxisFirst ==
    (returned # NothingReturned /\ has_partitioned_shots(returned.shots)) =>
        /\ Len(returned.value) = num_copies(returned.shots)
        /\ \A p \in DOMAIN returned.value :
              /\ Len(returned.value[p]) = Len(returned.mps0)
              /\ \A j \in DOMAIN returned.mps0 :
                    /\ IsResultOf(returned.value[p][j], returned.mps, j)
                    /\ \A r \in ResTree(returned.value[p][j]) :
                          r.nshots = returned.shots[p]

\* two unequal shot counts and three requests measured by the default, the
\* Hamiltonian and the classical-shadow strategy
C8_Witness ==
    /\ pc = "done"
    /\ shots = <<1, 2>>
    /\ Len(result) = 2
    /\ Len(result[2]) = 3
    /\ { result[2][j].strategy : j \in 1..3 } = {"default", "hamiltonian", "shadow"}

\* the shape sample_state returns for a call's total shots
SuccessfulShape(f) == SampleShape(state, total_shots(f.shots))

\* C9 as stated: NaN probabilities raise nothing in the default strategy, and
\* the group is post-processed on all-zero samples of the shape a successful
\* sampling would have had: (total_shots, num_wires), and
\* (batch, total_shots, num_wires) for a batched state.
C9_NaNFallbackHasSampledShape ==
    /\ raised # ContainNaN
    /\ \A i \in DOMAIN stack :
          \A k \in DOMAIN Collected(stack[i]) :
              LET r == Collected(stack[i])[k]
              IN  (r.strategy = "default" /\ r.samples.zero) =>
                      r.samples.shape = SuccessfulShape(stack[i])

\* the NumPy sampler is reached and some batch element without NaN has a sum
\* further than the cutoff from 1
NotNormalizedOnNumpy ==
    /\ state.interface = "numpy"
    /\ ~prng_key.present
    /\ \E i \in DOMAIN state.probs :
          ~state.probs[i].nan /\ state.probs[i].err > cutoff

HoldsDefaultResult(rs) ==
    \E k \in DOMAIN rs : \E r \in ResTree(rs[k]) : r.strategy = "default"

\* C10: on the NumPy path with such probabilities no group is ever sampled:
\* the only error that leaves the call is "probabilities do not sum to 1",
\* no zero-sample fallback is applied, and a call that reaches the sampler
\* returns no result.
C10_NotNormalizedPropagates ==
    NotNormalizedOnNumpy =>
        /\ raised \in {NoError, NotNormalized}
        /\ pc = "raised" => (raised = NotNormalized /\ result = <<>>)
        /\ \A i \in DOMAIN stack : ~HoldsDefaultResult(Collected(stack[i]))
        /\ returned # NothingReturned =>
              \A i \in DOMAIN returned.mps : Strategy(<<returned.mps[i]>>) # "default"

\* the error left the call although another batch element holds a NaN
C10_Witness ==
    /\ NotNormalizedOnNumpy
    /\ pc = "raised"
    /\ raised = NotNormalized
    /\ \E i \in DOMAIN state.probs : state.probs[i].nan

----------------------------------------------------------------------------
(* Properties of the samplers, stated on every call that returned samples  *)

Sampled == sample_out # NoCall /\ sample_out.error = NoError

\* the rows of the returned array with the index each was drawn as:
\* one (index, bits) pair per shot and batch element
DrawnRows ==
    IF sample_call.is_state_batched
    THEN {<<choices[b][k], sample_out.bits[b][k]>> :
             b \in 1..Len(choices), k \in 1..sample_call.shots}
    ELSE {<<choices[k], sample_out.bits[k]>> : k \in 1..sample_call.shots}

\* the index a row of bits encodes, most significant bit first
RECURSIVE Encode(_)
Encode(bits) ==
    IF bits = <<>> THEN 0
    ELSE 2 * Encode(SubSeq(bits, 1, Len(bits) - 1)) + bits[Len(bits)]

\* the shape of a nested array of the given depth
RECURSIVE ShapeOf(_, _)
ShapeOf(a, depth) ==
    IF depth = 0 THEN <<>> ELSE <<Len(a)>> \o ShapeOf(a[1], depth - 1)

\* C11: the bit at wire position j of every returned row is
\* floor(x / 2^(n-1-j)) mod 2 for the drawn index x (positions counted from
\* 0, most significant bit first), every entry is 0 or 1, the array has shape
\* (shots, n) or (batch, shots, n), and the bits encode x; this holds on the
\* NumPy and on the JAX path
C11_BitsOfDrawnIndex ==
    Sampled =>
        LET n == sample_call.num_wires
            k == sample_call.shots
        IN  /\ \A r \in DrawnRows :
                 /\ r[1] \in basis_states(n)
                 /\ Len(r[2]) = n
                 /\ \A j \in 0..(n - 1) :
                      /\ r[2][j + 1] = (r[1] \div 2^(n - 1 - j)) % 2
                      /\ r[2][j + 1] \in {0, 1}
                 /\ Encode(r[2]) = r[1]
            /\ IF sample_call.is_state_batched
               THEN ShapeOf(sample_out.bits, 3) = <<Len(sample_call.probs), k, n>>
               ELSE ShapeOf(sample_out.bits, 2) = <<k, n>>

\* a call has returned the two-wire rows of the indices 1 and 2, whose bits
\* differ from their reversal
C11_Witness ==
    /\ Sampled
    /\ sample_call.is_state_batched
    /\ {<<1, <<0, 1>> >>, <<2, <<1, 0>> >>} \subseteq DrawnRows

\* the rows of probabilities and of returned bits, one pair per batch element
\* (a single pair when the state is not batched)
ProbsAndBits ==
    IF sample_call.is_state_batched
    THEN {<<sample_call.probs[b], sample_out.bits[b]>> : b \in 1..Len(sample_call.probs)}
    ELSE {<<sample_call.probs[1], sample_out.bits>>}

\* C12: every returned row decodes to a basis state of non-zero probability
\* in its own batch element's distribution; in particular a one-wire state
\* that is certainly |0> gives rows that all equal [0], for every shot count
C12_NoZeroProbabilityState ==
    Sampled =>
        \A e \in ProbsAndBits :
            /\ \A k \in 1..Len(e[2]) : Encode(e[2][k]) \in e[1].nonzero
            /\ (sample_call.num_wires = 1 /\ e[1].nonzero = {0})
                  => \A k \in 1..Len(e[2]) : e[2][k] = <<0>>

\* a batch of a certain |0> and a certain |1> has been sampled with two shots
C12_Witness ==
    /\ Sampled
    /\ sample_call.is_state_batched
    /\ sample_call.num_wires = 1
    /\ sample_call.shots = 2
    /\ ProbsAndBits = {<<Row(FALSE, 0, {0}), << <<0>>, <<0>> >> >>,
                       <<Row(FALSE, 0, {1}), << <<1>>, <<1>> >> >>}

----------------------------------------------------------------------------
(* Properties of the random keys, with keys as paths in the split tree      *)

\* C13: when a key is supplied, no two draws of one measure_with_samples
\* invocation (recursive sub-calls, shot copies and batch elements included)
\* consume the same key, and no key that was split is used for a draw
C13_KeysUsedOnce ==
    prng_key.present =>
        /\ \A i, j \in DOMAIN key_draws : key_draws[i] = key_draws[j] => i = j
        /\ \A i \in DOMAIN key_draws : key_draws[i] \notin key_splits

\* a call with a key on a batched state and partitioned shots has returned
\* after a Hamiltonian or Sum group and a directly sampled group drew
C13_Witness ==
    /\ pc = "done"
    /\ prng_key.present
    /\ state.batched
    /\ has_partitioned_shots(shots)
    /\ \E i, j \in DOMAIN measurements0 :
         /\ IsSum(measurements0[i].obs)
         /\ measurements0[j].obs = Hermitian
    /\ Len(key_draws) >= 6

----------------------------------------------------------------------------
(* Properties of the execution accounting, stated on every call that       *)
(* returned                                                                *)

Accounted == accounting # NoCall /\ accounting.error = NoError

\* no Sum/Hamiltonian observable and no shadow request
Independent(mp) == ~IsSum(mp.obs) /\ ~IsShadow(mp)

AllIndependent ==
    \A i \in DOMAIN tape0.measurements : Independent(tape0.measurements[i])

\* the pairs returned on the one-request sub-lists of the tape as passed in,
\* for the same shots and batch size
SingletonCosts ==
    [i \in DOMAIN tape0.measurements |->
        CostOf(group_measurements(<<tape0.measurements[i]>>, <<>>).groups,
               tape0.shots, tape0.batch_size, <<0>>)]

SumOfSingletons ==
    [executions |-> SumSeq([i \in DOMAIN SingletonCosts |-> SingletonCosts[i].executions]),
     shots      |-> SumSeq([i \in DOMAIN SingletonCosts |-> SingletonCosts[i].shots])]

\* B: the tape's batch size, 1 when absent
BatchFactor == IF tape0.batch_size = 0 THEN 1 ELSE tape0.batch_size

\* C14 as stated: on a list of independent requests the returned pair is the
\* component-wise sum of the pairs of the one-request sub-lists
C14_SumOfSingletons ==
    (Accounted /\ AllIndependent) =>
        /\ accounting.executions = SumOfSingletons.executions
        /\ accounting.shots = SumOfSingletons.shots

\* C14 amended: on a list of independent requests the returned pair is
\* B * g * (1, total_shots) for the g groups the grouper formed; it is the
\* sum of the one-request pairs when every request has a group of its own,
\* and has fewer executions when requests share a group
C14_SumOverGroups ==
    (Accounted /\ AllIndependent) =>
        LET g == Len(tape_groups)
        IN  /\ accounting.executions = BatchFactor * g
            /\ accounting.shots = BatchFactor * g * total_shots(tape0.shots)
            /\ g = Len(tape0.measurements) =>
                  /\ accounting.executions = SumOfSingletons.executions
                  /\ accounting.shots = SumOfSingletons.shots
            /\ g < Len(tape0.measurements) =>
                  accounting.executions < SumOfSingletons.executions

\* two no-observable requests were accounted as one group on a batched tape
C14_Witness ==
    /\ Accounted
    /\ AllIndependent
    /\ tape0.batch_size = 3
    /\ tape0.shots = <<1, 2>>
    /\ Len(tape0.measurements) = 2
    /\ \A i \in 1..2 : tape0.measurements[i].obs = None
    /\ Len(tape_groups) = 1
    /\ accounting.executions = 3
    /\ accounting.shots = 9

\* m(g): the grouping-partition runs of a Hamiltonian/Sum expectation group,
\* total_shots for a shadow-type group, 1 for any other group
Runs(group, op_groups) ==
    LET mp == group[1]
    IN  CASE mp.kind = "expval" /\ mp.obs.shape = "LinearCombination"
               -> get_num_executions_for_expval_H(mp.obs)
          [] mp.kind = "expval" /\ mp.obs.shape = "Sum"
               -> get_num_executions_for_sum(mp.obs, op_groups)
          [] mp.kind \in {"classical_shadow", "shadow_expval"} -> total_shots(tape0.shots)
          [] OTHER -> 1

\* the group counts the operand grouping may have returned for the groups
RunChoices == SeqProduct([k \in DOMAIN tape_groups |-> OpGroupChoices(tape_groups[k])])

\* C15 as stated: with finite shots, executions = B * sum of m(g) and
\* shots = B * sum of m(g) * total_shots
C15_ShotsAreRunsTimesTotal ==
    (Accounted /\ HasShots(tape0.shots)) =>
        \E og \in RunChoices :
            LET m == [k \in DOMAIN tape_groups |-> Runs(tape_groups[k], og[k])]
            IN  /\ accounting.executions = BatchFactor * SumSeq(m)
                /\ accounting.shots =
                       BatchFactor * SumSeq([k \in DOMAIN m |->
                                                m[k] * total_shots(tape0.shots)])

\* C15 amended: executions = B * sum of m(g), and shots = B * sum of s(g)
\* where s(g) is total_shots for a shadow-type group and m(g) * total_shots
\* for any other group
C15_ShadowGroupsAddTotalShots ==
    (Accounted /\ HasShots(tape0.shots)) =>
        \E og \in RunChoices :
            LET m == [k \in DOMAIN tape_groups |-> Runs(tape_groups[k], og[k])]
                s == [k \in DOMAIN m |->
                         IF tape_groups[k][1].kind \in {"classical_shadow", "shadow_expval"}
                         THEN total_shots(tape0.shots)
                         ELSE m[k] * total_shots(tape0.shots)]
            IN  /\ accounting.executions = BatchFactor * SumSeq(m)
                /\ accounting.shots = BatchFactor * SumSeq(s)

\* a shadow group and a two-run Hamiltonian group were accounted on a batched
\* tape of 3 shots: 3 * (3 + 2) executions and 3 * (3 + 2 * 3) shots
C15_Witness ==
    /\ Accounted
    /\ tape0.shots = <<1, 2>>
    /\ tape0.batch_size = 3
    /\ Len(tape_groups) = 2
    /\ \E k \in 1..2 : IsShadow(tape_groups[k][1])
    /\ \E k \in 1..2 : tape_groups[k][1].obs.shape = "LinearCombination"
    /\ accounting.executions = 15
    /\ accounting.shots = 27

\* the tape's only request is the expectation value of a weighted sum of two
\* Pauli terms with one grouping index per term
TwoTermTape ==
    /\ tape0 # NoCall
    /\ Len(tape0.measurements) = 1
    /\ LET mp == tape0.measurements[1]
       IN  /\ mp.kind = "expval"
           /\ IsSum(mp.obs)
           /\ Len(TermsOf(mp.obs)) = 2
           /\ \A i \in 1..2 : TermsOf(mp.obs)[i].op.shape = "PauliWord"
           /\ grouping_indices(mp.obs) = << <<0>>, <<1>> >>

\* C16: for such a tape the executions are 2 times the batch size (2 when
\* there is none), for every shot count and every shot partitioning
C16_TwoExecutionsPerBatchElement ==
    (accounting # NoCall /\ TwoTermTape) =>
        /\ accounting.error = NoError
        /\ accounting.executions = 2 * BatchFactor

\* the two-term Hamiltonian was accounted with partitioned shots and batch size 3
C16_Witness ==
    /\ Accounted
    /\ TwoTermTape
    /\ tape0.measurements[1].obs.shape = "LinearCombination"
    /\ tape0.shots = <<1, 2>>
    /\ tape0.batch_size = 3
    /\ accounting.executions = 6

\* C17: the accounting samples nothing and, after it returns, the tape's
\* measurement list and every request in it, observables included, are as
\* they were passed in
C17_TapeUnchanged ==
    accounting # NoCall =>
        /\ tape = tape0
        /\ SamplerIdle
        /\ KeysIdle

----------------------------------------------------------------------------
(* Properties of a call with mid_measurements                              *)

\* C18: with m values in mid_measurements only the first len(measurements)-m
\* requests are grouped and sampled and, for any shots, the call returns with
\* the values unchanged, in dictionary order, as the trailing m entries of
\* the measurement axis, after the results of the other requests
C18_MidValuesTrailUnchanged ==
    (pc \in {"done", "raised"} /\ mid_measurements # <<>>) =>
        LET n == Len(measurements0)
            m == Len(mid_measurements)
        IN  /\ pc = "done"
            /\ Range(Flatten(returned.indices)) = 0..(n - m - 1)
            /\ IF has_partitioned_shots(shots)
               THEN \A p \in DOMAIN result :
                        /\ Len(result[p]) = n
                        /\ SubSeq(result[p], n - m + 1, n) = mid_measurements
               ELSE /\ Len(result) = n
                    /\ SubSeq(result, n - m + 1, n) = mid_measurements

----------------------------------------------------------------------------
(* Properties of the eigendecomposition cache                              *)

\* a step removes no key of the cache and replaces no entry
CacheOnlyGrows ==
    \A k \in DOMAIN eigs : k \in DOMAIN eigs' /\ eigs'[k] = eigs[k]

\* the decomposition was computed at most once per key
ComputedOncePerKey ==
    \A i, j \in DOMAIN eigh_calls : eigh_calls[i] = eigh_calls[j] => i = j

\* observables with equal matrices were served the same entry, whatever
\* their wires, and the call just made returned from the cached entry
SameEntryForEqualMatrices ==
    /\ \A a, b \in served : a[1] = b[1] => a[3] = b[3]
    /\ \A a \in served : Hkey(a[1]) \in DOMAIN eigs /\ eigs[Hkey(a[1])] = a[3]

\* C19: over any sequence of eigendecomposition/eigvals/diagonalizing_gates
\* calls the cache only grows (no key is removed, no entry replaced), the
\* decomposition is computed at most once per key, and observables with
\* equal matrices receive the same entry regardless of their wires
C19_CacheOnlyGrows ==
    /\ [][CacheOnlyGrows]_vars
    /\ [](ComputedOncePerKey /\ SameEntryForEqualMatrices)

\* all three matrices are cached, the first one computed is still served,
\* and one matrix was served on both wires
C19_Witness ==
    /\ Len(eigh_calls) = 3
    /\ eig_result # NoCall
    /\ Hkey(eig_result.obs.matrix) = eigh_calls[1]
    /\ eig_result.method = "eigvals"
    /\ \E a, b \in served : a[1] = b[1] /\ a[2] # b[2]

----------------------------------------------------------------------------
(* Properties of the Projector constructions                               *)

OneDimensional(c) == Len(c.state.shape) = 1

----------------------------------------------------------------------------
(* Properties of _apply_diagonalizing_gates *)

\* the gates a returned call applied, in the order it applied them
AppliedGates ==
    SubSeq(rotation.out, Len(rotation.state) + 1, Len(rotation.out))

\* C21: _apply_diagonalizing_gates applies, after the gates the state
\* already went through and in sequence order, exactly the sole member's own
\* diagonalizing gates when the group has one member, the one shared
\* sequence of the qubit-wise-commuting routine (and no member's own gate)
\* when several members all carry an observable, and no gate (the state is
\* returned unchanged) when several members include one without observable.
C21_GatesOfTheGroup ==
    (rotation # NoCall /\ rotation.done) =>
        LET mps == rotation.mps
        IN  /\ SubSeq(rotation.out, 1, Len(rotation.state)) = rotation.state
            /\ Len(mps) = 1 => AppliedGates = own_diagonalizing_gates(mps[1])
            /\ (Len(mps) > 1 /\ \A i \in DOMAIN mps : mps[i].obs # None) =>
                  /\ AppliedGates =
                        diagonalize_qwc_pauli_words([i \in DOMAIN mps |-> mps[i].obs])
                  /\ \A k \in DOMAIN AppliedGates : AppliedGates[k].by = "qwc"
            /\ (Len(mps) > 1 /\ \E i \in DOMAIN mps : mps[i].obs = None) =>
                  rotation.out = rotation.state

\* a group of two Pauli words that rotate one wire each was given one
\* shared sequence of two gates, after the gate of the circuit
C21_Witness ==
    /\ rotation # NoCall
    /\ rotation.done
    /\ Len(rotation.mps) = 2
    /\ rotation.mps[1].obs = PauliWord(<<"I", "Y">>)
    /\ rotation.mps[2].obs = X0
    /\ rotation.state # <<>>
    /\ Len(AppliedGates) = 2

----------------------------------------------------------------------------
(* Properties of the Hamiltonian and the Sum strategy *)

\* every result a returned value holds, one per request and shot copy
ReturnedResults ==
    IF returned = NothingReturned THEN {}
    ELSE IF has_partitioned_shots(returned.shots)
    THEN { returned.value[p][j] : p \in DOMAIN returned.value, j \in DOMAIN returned.mps0 }
    ELSE Range(returned.value)

\* r is the coefficient-weighted sum of the results of one recursive call
\* on the terms of its observable, from r.nshots shots
WeightedSumOfTerms(r) ==
    LET ts == TermsOf(r.mp.obs)
    IN  /\ DOMAIN r.parts = DOMAIN ts
        /\ \A i \in DOMAIN ts :
              /\ r.parts[i].c = IF r.strategy = "hamiltonian" THEN ts[i].c ELSE 1
              /\ r.parts[i].res.mp.kind = "expval"
              /\ r.parts[i].res.mp.id = i - 1
              /\ r.parts[i].res.mp.obs \in {ts[i].op, simplify(ts[i].op)}
              /\ r.parts[i].res.nshots = r.nshots

\* the frames in which the Hamiltonian or Sum strategy runs or has just run
StrategyFrames ==
    { d \in DOMAIN stack : stack[d].calls # <<>> }

\* the recursive calls frame d made: call k has the k-th copy's shot count,
\* the term requests and the k-th child of the strategy's key
OneCallPerCopy(d) ==
    LET f    == stack[d]
        keys == jax_random_split(f.key, num_copies(f.shots))
    IN  /\ Len(f.calls) <= num_copies(f.shots)
        /\ \A k \in DOMAIN f.calls :
              /\ f.calls[k].shots = <<f.shots[k]>>
              /\ f.calls[k].key = keys[k]
              /\ \A j \in DOMAIN f.calls :
                    (f.calls[j].key.present /\ j # k) => f.calls[j].key # f.calls[k].key
        \* a call is in progress, or the copies so far have returned
        /\ Len(f.calls) = IF d < Len(stack) THEN f.copy
                          ELSE IF f.copy > 1 THEN f.copy - 1
                          ELSE num_copies(f.shots)
        /\ (d < Len(stack) \/ f.copy > 1) => Len(f.sub) = f.copy - 1

\* C22: the Hamiltonian strategy makes exactly one recursive call per shot
\* copy, with that copy's shot count and its own sub-key, and reports for
\* each copy the sum of c_i times the recursive result for term o_i; the Sum
\* strategy does the same over the operands with coefficients 1.
C22_WeightedSumPerCopy ==
    /\ \A d \in StrategyFrames : OneCallPerCopy(d)
    /\ \A r \in UNION { ResTree(x) : x \in ReturnedResults } :
          r.strategy \in {"hamiltonian", "sum"} => WeightedSumOfTerms(r)

\* the outermost call, given a key and shots (1, 2), has just left the
\* Hamiltonian strategy with one value per copy
C22_Witness ==
    /\ pc = "run"
    /\ Len(stack) = 1
    /\ prng_key.present
    /\ shots = <<1, 2>>
    /\ Len(stack[1].calls) = 2
    /\ stack[1].all_res # <<>>
    /\ LET last == stack[1].all_res[Len(stack[1].all_res)]
       IN  /\ Len(last) = 2
           /\ last[2].strategy = "hamiltonian"
           /\ Len(last[2].parts) = 2
           /\ last[2].parts[2].c = 3

----------------------------------------------------------------------------
(* Properties of the dispatch on the group's first member *)

\* the number of members of the groups frame f has processed
MembersProcessed(f) ==
    SumSeq([g \in 1..(f.gi - 1) |-> Len(f.groups[g])])

\* C23: for every group the grouper produced, the strategy selected from
\* the group's first member returns as many entries as the group has
\* members: the Hamiltonian, Sum and classical-shadow strategies are selected
\* for groups of one member only, every processed group has added one entry
\* per member, and when the loop ends the collected results are as many as
\* the flattened indices.
C23_OneEntryPerMember ==
    \A d \in DOMAIN stack :
        LET f == stack[d]
        IN  f.pc = "loop" =>
              /\ \A g \in DOMAIN f.groups :
                    Strategy(f.groups[g]) \in {"hamiltonian", "sum", "shadow"}
                        => Len(f.groups[g]) = 1
              /\ Len(f.all_res) = MembersProcessed(f)
              /\ f.gi > Len(f.groups) => Len(f.all_res) = Len(Flatten(f.indices))

\* the loop of the outermost call has ended on a group of two Pauli
\* requests and a group of one Hamiltonian request
C23_Witness ==
    /\ pc = "run"
    /\ Len(stack) = 1
    /\ stack[1].pc = "loop"
    /\ stack[1].gi > Len(stack[1].groups)
    /\ Len(stack[1].groups) = 2
    /\ Len(stack[1].groups[1]) = 2
    /\ Strategy(stack[1].groups[2]) = "hamiltonian"
    /\ Len(stack[1].all_res) = 3

----------------------------------------------------------------------------
(* Properties of the default strategy's slices *)

\* the entries of all_res that group g of frame f added, one per member
EntriesOf(f, g) ==
    LET before == SumSeq([h \in 1..(g - 1) |-> Len(f.groups[h])])
    IN  [m \in DOMAIN f.groups[g] |-> f.all_res[before + m]]

\* the rows of a sample array
RowsOf(samples) == samples.shape[Len(samples.shape) - 1]

\* C24: with partitioned shots (s_1, ..., s_k) the default strategy makes
\* one sampling pass of s_1+...+s_k shots per group, and every member's
\* result for partition i is computed from the s_i rows that start at offset
\* s_1+...+s_(i-1) of that one sample array: the slices are contiguous,
\* disjoint and cover every row once.
C24_ContiguousSlices ==
    \A d \in DOMAIN stack :
        LET f == stack[d]
        IN  (f.pc = "loop" /\ has_partitioned_shots(f.shots)) =>
              \A g \in 1..(f.gi - 1) :
                  Strategy(f.groups[g]) = "default" =>
                    LET es == EntriesOf(f, g)
                        k  == num_copies(f.shots)
                    IN  /\ { j \in DOMAIN f.passes : f.passes[j].group = g } # {}
                        /\ \A i, j \in DOMAIN f.passes :
                              (f.passes[i].group = g /\ f.passes[j].group = g) =>
                                  /\ i = j
                                  /\ f.passes[i].nshots = total_shots(f.shots)
                        /\ \A m \in DOMAIN es :
                              /\ Len(es[m]) = k
                              /\ RowsOf(es[m][1].samples) = total_shots(f.shots)
                              /\ es[m][1].lower = 0
                              /\ es[m][k].lower + es[m][k].nshots = RowsOf(es[m][1].samples)
                              /\ \A p \in 1..k :
                                    /\ es[m][p].samples = es[1][1].samples
                                    /\ es[m][p].nshots = f.shots[p]
                                    /\ es[m][p].lower = SumSeq(SubSeq(f.shots, 1, p - 1))
                                    /\ p < k => es[m][p + 1].lower =
                                                    es[m][p].lower + es[m][p].nshots

\* shots (1, 2): a group of two Pauli requests was sampled in one pass of
\* three shots, and the second partition took the two rows from offset 1
C24_Witness ==
    /\ pc = "run"
    /\ Len(stack) = 1
    /\ stack[1].shots = <<1, 2>>
    /\ stack[1].gi = 2
    /\ Len(stack[1].groups[1]) = 2
    /\ stack[1].passes = <<Pass(1, 3)>>
    /\ stack[1].all_res[2][2].lower = 1
    /\ stack[1].all_res[2][2].nshots = 2

----------------------------------------------------------------------------
(* The accounting against the measurement *)

\* the accounting and the measurement of the same requests have both
\* returned, and the partition routine gave both the same groups
AccountedAndMeasured ==
    /\ pc = "done"
    /\ accounting # NoCall
    /\ accounting.error = NoError
    /\ tape0.measurements = measurements0
    /\ tape0.shots = shots
    /\ tape_groups = returned.groups

\* the shots the sampling passes of the outermost call asked for
ShotsDrawn ==
    SumSeq([k \in DOMAIN returned.passes |-> returned.passes[k].nshots])

\* C25: for an unbatched tape with finite shots whose groups all use the
\* default or the classical-shadow strategy, the shot total of
\* get_num_shots_and_executions is the number of shots measure_with_samples
\* draws for the same requests and shots: total_shots per group.
C25_AccountedShotsAreDrawn ==
    ( /\ AccountedAndMeasured
      /\ tape0.batch_size = 0
      /\ HasShots(tape0.shots)
      /\ \A g \in DOMAIN tape_groups :
            Strategy(tape_groups[g]) \in {"default", "shadow"} ) =>
        /\ accounting.shots = ShotsDrawn
        /\ accounting.shots = Len(tape_groups) * total_shots(shots)

\* shots (1, 2): a default group of two members and a classical-shadow
\* group were accounted 6 shots and drew 6, in three passes
C25_Witness ==
    /\ AccountedAndMeasured
    /\ shots = <<1, 2>>
    /\ Len(tape_groups) = 2
    /\ Len(tape_groups[1]) = 2
    /\ Strategy(tape_groups[2]) = "shadow"
    /\ accounting.shots = 6
    /\ Len(returned.passes) = 3

----------------------------------------------------------------------------
(* Properties of _get_num_wire_groups_for_expval_H *)

\* the distinct terms of the accounted Hamiltonian that are not the identity
DistinctTerms ==
    { t \in { TermsOf(tape0.measurements[1].obs)[i].op :
                i \in DOMAIN TermsOf(tape0.measurements[1].obs) } : ~IsIdentity(t) }

\* the terms D can be put into exactly n groups whose members act on
\* pairwise disjoint wires
WireDisjointGrouping(D, n) ==
    \E f \in [D -> 1..n] :
        /\ \A k \in 1..n : \E t \in D : f[t] = k
        /\ \A a, b \in D :
              (a # b /\ f[a] = f[b]) => WiresOf(a) \cap WiresOf(b) = {}

\* C26: for a Hamiltonian without cached grouping indices the wire-group
\* count is the number of groups of a grouping of its distinct non-identity
\* terms in which the members of every group act on pairwise disjoint wires,
\* and it is 0 only when there is no non-identity term.
C26_WireDisjointGroups ==
    (accounting # NoCall /\ grouping_indices(tape0.measurements[1].obs) = <<>>) =>
        /\ accounting.error = NoError
        /\ WireDisjointGrouping(DistinctTerms, accounting.executions)
        /\ accounting.executions = 0 <=> DistinctTerms = {}

----------------------------------------------------------------------------
(* Properties of the rng argument *)

\* the results in the value returned last that were computed from drawn
\* samples, those of the recursive calls included
DrawnResults ==
    { r \in UNION { ResTree(x) : x \in ReturnedResults } :
        r.strategy = "default" /\ ~r.samples.zero }

SeededWithoutKey == rng.kind = "seed" /\ ~prng_key.present

\* C27: with no backend key and rng an integer seed, every default-strategy
\* sampling pass of one invocation starts from a generator freshly built
\* from that seed, so two groups with equal probability vectors and equal
\* shot counts receive identical sample arrays, and a second invocation
\* with identical inputs and seed returns the identical result.
C27_SeedRestartsEveryPass ==
    SeededWithoutKey =>
        /\ \A r \in DrawnResults : r.samples.stream = Generator(rng, 0)
        /\ \A r1, r2 \in DrawnResults :
              (r1.samples.basis = r2.samples.basis /\ r1.samples.shape = r2.samples.shape)
                  => r1.samples = r2.samples
        /\ (pc = "done" /\ earlier # NoCall) => result = earlier.result

\* a seeded call on three requests with shots (1, 2) has returned for the
\* second time; two requests of different groups were computed from equal
\* probabilities, and a Sum was measured by recursive calls
C27_Witness ==
    /\ SeededWithoutKey
    /\ pc = "done"
    /\ earlier # NoCall
    /\ shots = <<1, 2>>
    /\ Len(measurements0) = 3
    /\ \E r1, r2 \in DrawnResults :
          /\ r1.mp.obs = Z1
          /\ r2.mp.kind = "sample"
          /\ r1.samples = r2.samples
    /\ \E r \in DrawnResults : r.mp.obs = X0 /\ r.samples.shape # <<3, 2>>

----------------------------------------------------------------------------
(* Termination *)

\* the deepest nesting among the observables the outermost call was given
DeepestRequest ==
    LET ds == { NestingDepth(measurements0[i].obs) : i \in DOMAIN measurements0 }
    IN  IF ds = {} THEN 0 ELSE CHOOSE d \in ds : \A e \in ds : e <= d

\* the loop of frame f has collected the entries of the groups before the
\* one it is at, each group's once
GroupsProcessedOnce(f) ==
    f.pc = "loop" =>
        /\ f.gi \in 1..(Len(f.groups) + 1)
        /\ Len(f.all_res) =
              SumSeq([g \in DOMAIN f.groups |-> IF g < f.gi THEN Len(f.groups[g]) ELSE 0])
        /\ Len(f.passes) <= Len(f.all_res) * num_copies(f.shots)

\* the call in frame d > 1 was made by the strategy of the group its caller
\* is at, on the terms of that group's observable, each less deeply nested
OnTheTerms(d) ==
    LET caller == stack[d - 1]
        mp     == caller.groups[caller.gi][1]
    IN  /\ Strategy(caller.groups[caller.gi]) \in {"hamiltonian", "sum"}
        /\ stack[d].mps0 = [i \in DOMAIN TermsOf(mp.obs) |->
                                ExpectationMP(i - 1, TermsOf(mp.obs)[i].op)]
        /\ \A i \in DOMAIN stack[d].mps0 :
              NestingDepth(stack[d].mps0[i].obs) < NestingDepth(mp.obs)

RecursionDescends ==
    /\ \A d \in DOMAIN stack : GroupsProcessedOnce(stack[d])
    /\ \A d \in DOMAIN stack : d > 1 => OnTheTerms(d)
    /\ Len(stack) <= 1 + DeepestRequest

\* C28: measure_with_samples terminates on every finite request list of
\* finitely nested observables: each group is processed exactly once, every
\* recursive call of the Hamiltonian or Sum strategy is on the terms of the
\* observable, which are strictly less deeply nested than it, so the
\* recursion is never deeper than the nesting, and the call returns or raises.
C28_Terminates ==
    /\ []RecursionDescends
    /\ [](pc = "run" => CanStep)
    /\ <>(pc \in {"done", "raised"})

\* the recursion is as deep as the nesting of the one request allows, with
\* shots (1, 2), and the innermost call has processed its groups
C28_Witness ==
    /\ Len(measurements0) = 1
    /\ DeepestRequest = MaxDepth
    /\ shots = <<1, 2>>
    /\ Len(stack) = 1 + MaxDepth
    /\ stack[1].copy = 2
    /\ Top.pc = "loop"
    /\ Top.gi > Len(Top.groups)
    /\ Len(Top.groups) = 2

====
